---- MODULE Spec2Model ----
(***************************************************************************)
(* Model of api/client/credentials.go: DynamicIdentityFileCreds, the       *)
(* reloadable TLS/SSH credential provider, its Reload routine, the two     *)
(* config builders and the four callbacks they install, under concurrent   *)
(* use by reloading goroutines and connection attempts.                    *)
(***************************************************************************)
EXTENDS Integers, Sequences, FiniteSets, TLC

\* Number of versions of the identity file the environment writes.
MaxVer == 2
\* Number of Reload calls (the constructor's included) that read the file.
MaxCalls == 3

\* Goroutines calling NewDynamicIdentityFileCreds / Reload. They are
\* interchangeable: a new call is always made by the first idle one.
Reloaders == {1, 2}
\* Connection attempts of the transport stacks using the issued configs;
\* each is a TLS handshake or an SSH handshake.
Attempts == {"a1"}

\* The parts of an identity file that Reload parses, in the order it parses
\* them, and the sets of malformed parts an identity file may have.
Parts == <<"keypair", "ca", "sshcert", "privkey", "knownhosts">>
Defects == {{}} \cup {{Parts[i]} : i \in 1..Len(Parts)} \cup {{"ca", "privkey"}}

\* A nil pointer / nil slice: material of no version, installed by no call.
Nil == [ver |-> 0, call |-> 0]
\* Material parsed by Reload call c from version v of the identity file.
Material(v, c) == [ver |-> v, call |-> c]

NoObs == [roots |-> Nil, cert |-> Nil, hosts |-> Nil, sshCert |-> Nil, sshKey |-> Nil]
NoIdentity == 0
\* constants.APIDomain, the sentinel server name, and http2.NextProtoTLS.
APIDomain == "teleport.cluster.local"
NextProtoTLS == "h2"
\* A callback of a config: a closure over the provider d (it reads d's field
\* when invoked) or over a copy of the material taken when it was built.
OverProvider == [env |-> "d", val |-> Nil]
OverCopy(m) == [env |-> "copy", val |-> m]
NoConfig == [built |-> FALSE, cert |-> OverProvider, roots |-> OverProvider,
             Certificates |-> Nil, RootCAs |-> Nil, InsecureSkipVerify |-> FALSE,
             NextProtos |-> <<>>, ServerName |-> "", User |-> "", at |-> 0,
             err |-> "notcalled"]

\* An x509 certificate: who it names, who signed it, the DNS names it is for.
Certificate(subject, issuer, names) ==
    [subject |-> subject, issuer |-> issuer, names |-> names]
\* The root CA of version v of the identity file, and an intermediate CA it
\* signed. The pool parsed from version v holds the root of version v.
RootCA(v) == v
Intermediate(v) == 10 + v
\* The addresses a client dials, and the names a server's leaf may be for.
Endpoints == {"proxy.example.com", "auth.internal"}
\* The chains a server may present: the leaf first, signed by a root or by an
\* intermediate, which is presented after it or left out.
PeerChains ==
    LET Leaves == {Certificate(100, i, {n}) :
                     i \in {RootCA(v) : v \in 1..MaxVer}
                           \cup {Intermediate(v) : v \in 1..MaxVer},
                     n \in {APIDomain, "proxy.example.com"}}
    IN  {<<l>> : l \in Leaves}
        \cup {<<l, Certificate(l.issuer, l.issuer - 10, {})>> :
                 l \in {x \in Leaves : x.issuer > 10}}
\* No connection: what an attempt holds outside VerifyConnection.
NoPeer == [addr |-> "", chain |-> <<>>]

VARIABLES
    store,          \* the version of the identity file at d.Path
    tlsCert, tlsRootCAs, sshCert, sshKey, sshKnownHosts,   \* the five fields
    mu,             \* d.mu: writer announced, writer holding, readers holding
    newRet,         \* what NewDynamicIdentityFileCreds returned
    rpc, id, err, callOf, inNew, wrote,     \* per reloading goroutine
    tlsCfg, sshCfg, dialRet,                \* results of the three builders
    apc, obs, seen, peer, cbErr,            \* per connection attempt
    nCalls, lockOrder, returned,            \* history of the Reload calls
    backing,        \* what the path, directory or string of a static source holds
    creds,          \* the static credentials object: its kind and loaded material
    sret,           \* the last call on it: its number, operation and result
    loads,          \* history: how often its loader was invoked
    kinds,          \* history: the kinds of error load() returned, by cause
    cIn,            \* the tls.Config given to configureTLS, as it was given
    cArg,           \* that tls.Config as it is now
    cOut,           \* the tls.Config configureTLS returned
    cGot,           \* what the GetClientCertificate of the result returned
    dmi,            \* a call of readDMIInfoAccordingToMode and the DMI cache
    cdd,            \* a call of collectDeviceData and its goroutine
    esc,            \* the output of `sudo tsh device dmi-read` and what is parsed
    pg,             \* a call of one of the paged AWS fetch helpers
    gd,             \* a call of rdsDBProxyPlugin.GetDatabases
    cw,             \* an InMemoryConfigWriter and the calls made on it
    env             \* a device trust test environment E

fields == <<tlsCert, tlsRootCAs, sshCert, sshKey, sshKnownHosts>>
rvars == <<rpc, id, err, callOf, inNew, wrote>>
cvars == <<tlsCfg, sshCfg, dialRet>>
avars == <<apc, obs, seen, peer, cbErr>>
hvars == <<nCalls, lockOrder, returned>>
\* The dynamic provider and its users.
pvars == <<store, fields, mu, newRet, rvars, cvars, avars, hvars>>
\* A static credential source (identity file, identity string or profile).
svars == <<backing, creds, sret, loads, kinds>>
\* A call of configureTLS.
tvars == <<cIn, cArg, cOut, cGot>>
\* The collection of device data.
dvars == <<dmi, cdd, esc>>
\* What lies outside the dynamic provider, the static sources, configureTLS,
\* the collection of device data.
\* The database fetchers of the discovery service.
fvars == <<pg, gd>>
\* The test helpers.
hlpvars == <<cw, env>>
elsewhere == <<svars, tvars, dvars, fvars, hlpvars>>
outsideStatic == <<pvars, tvars, dvars, fvars, hlpvars>>
outsideConfigure == <<pvars, svars, dvars, fvars, hlpvars>>
outsideDMI == <<pvars, svars, tvars, cdd, esc, fvars, hlpvars>>
outsideDevice == <<pvars, svars, tvars, esc, fvars, hlpvars>>
outsideEscalated == <<pvars, svars, tvars, dmi, cdd, fvars, hlpvars>>
outsidePaging == <<pvars, svars, tvars, dvars, gd, hlpvars>>
outsideGetDatabases == <<pvars, svars, tvars, dvars, pg, hlpvars>>
outsideWriter == <<pvars, svars, tvars, dvars, fvars, env>>
outsideEnv == <<pvars, svars, tvars, dvars, fvars, cw>>
vars == <<pvars, svars, tvars, dvars, fvars, hlpvars>>

----------------------------------------------------------------------------
\* sync.RWMutex

\* Faulty variant of CanRLock: a read lock that does not exclude the writer.
RLockIgnoresWriter == TRUE

\* RLock proceeds unless a writer holds the lock or has announced itself.
CanRLock == mu.w = 0

\* Lock first excludes the other writers.
CanLock == mu.w = 0

\* Lock then waits for the readers that hold the lock to leave.
CanAcquire(r) == mu.w = r /\ ~mu.held /\ mu.readers = {}

RLock(a) == [mu EXCEPT !.readers = @ \cup {a}]
RUnlock(a) == [mu EXCEPT !.readers = @ \ {a}]

\* The call whose lock acquisition is the latest (0: none yet).
LastLocked == IF lockOrder = <<>> THEN 0 ELSE lockOrder[Len(lockOrder)]

\* Position of a call in the order of write-lock acquisitions (0: never).
Pos(c) == IF \E i \in 1..Len(lockOrder) : lockOrder[i] = c
          THEN CHOOSE i \in 1..Len(lockOrder) : lockOrder[i] = c
          ELSE 0

----------------------------------------------------------------------------
InitProvider ==
    /\ store = 1
    /\ tlsCert = Nil /\ tlsRootCAs = Nil /\ sshCert = Nil
    /\ sshKey = Nil /\ sshKnownHosts = Nil
    /\ mu = [w |-> 0, held |-> FALSE, readers |-> {}]
    /\ newRet = [state |-> "notcalled", d |-> FALSE, err |-> "nil"]
    /\ rpc = [r \in Reloaders |-> "idle"]
    /\ id = [r \in Reloaders |-> NoIdentity]
    /\ err = [r \in Reloaders |-> "nil"]
    /\ callOf = [r \in Reloaders |-> 0]
    /\ inNew = [r \in Reloaders |-> FALSE]
    /\ wrote = [r \in Reloaders |-> {}]
    /\ tlsCfg = NoConfig /\ sshCfg = NoConfig
    /\ dialRet = [dialer |-> "nil", err |-> "notcalled"]
    /\ apc = [a \in Attempts |-> "idle"]
    /\ obs = [a \in Attempts |-> NoObs]
    /\ seen = [a \in Attempts |-> {}]
    /\ peer = [a \in Attempts |-> NoPeer]
    /\ cbErr = [a \in Attempts |-> "nil"]
    /\ nCalls = 0 /\ lockOrder = <<>> /\ returned = {}

\* The environment replaces the identity file at d.Path.
WriteStore ==
    /\ store < MaxVer
    /\ store' = store + 1
    /\ UNCHANGED <<elsewhere, fields, mu, newRet, rvars, cvars, avars, hvars>>

----------------------------------------------------------------------------
\* NewDynamicIdentityFileCreds and Reload

FirstIdle(r) == rpc[r] = "idle" /\ \A q \in Reloaders : q < r => rpc[q] # "idle"

\* d := &DynamicIdentityFileCreds{Path: path}; d.Reload()
NewDynamicIdentityFileCreds(r) ==
    /\ newRet.state = "notcalled" \/ (newRet.state = "returned" /\ ~newRet.d)
    /\ \A q \in Reloaders : rpc[q] = "idle"
    /\ FirstIdle(r)
    /\ newRet' = [state |-> "running", d |-> FALSE, err |-> "nil"]
    /\ tlsCert' = Nil /\ tlsRootCAs' = Nil /\ sshCert' = Nil
    /\ sshKey' = Nil /\ sshKnownHosts' = Nil
    /\ rpc' = [rpc EXCEPT ![r] = "read"]
    /\ inNew' = [inNew EXCEPT ![r] = TRUE]
    /\ UNCHANGED <<elsewhere, store, mu, id, err, callOf, wrote, cvars, avars, hvars>>

\* A consumer calls d.Reload() on the provider the constructor returned.
Reload(r) ==
    /\ newRet.state = "returned" /\ newRet.d
    /\ FirstIdle(r)
    /\ nCalls < MaxCalls
    /\ rpc' = [rpc EXCEPT ![r] = "read"]
    /\ UNCHANGED <<elsewhere, store, fields, mu, newRet, id, err, callOf, inNew, wrote,
                   cvars, avars, hvars>>

\* Faulty variant of ReadFile: the write lock is taken before the file is read.
ReadFileUnderLock(r) ==
    /\ rpc[r] = "read"
    /\ nCalls < MaxCalls
    /\ mu.w = 0
    /\ mu' = [mu EXCEPT !.w = r]
    /\ nCalls' = nCalls + 1
    /\ callOf' = [callOf EXCEPT ![r] = nCalls + 1]
    /\ id' = [id EXCEPT ![r] = store]
    /\ rpc' = [rpc EXCEPT ![r] = "parse"]
    /\ UNCHANGED <<elsewhere, store, fields, newRet, err, inNew, wrote, cvars, avars,
                   lockOrder, returned>>

\* Faulty variant of ReadFile: an unreadable file is read again.
ReadFileRetries(r) ==
    /\ rpc[r] = "read"
    /\ nCalls < MaxCalls
    /\ nCalls' = nCalls + 1
    /\ callOf' = [callOf EXCEPT ![r] = nCalls + 1]
    /\ \E readable \in BOOLEAN :
         IF ~readable
         THEN UNCHANGED <<err, rpc, id>>
         ELSE /\ id' = [id EXCEPT ![r] = store]
              /\ rpc' = [rpc EXCEPT ![r] = "parse"]
              /\ err' = err
    /\ UNCHANGED <<elsewhere, store, fields, mu, newRet, inNew, wrote, cvars, avars,
                   lockOrder, returned>>

\* id, err := identityfile.ReadFile(d.Path): the file is unreadable, or its
\* current version is read.
ReadFile(r) ==
    /\ rpc[r] = "read"
    /\ nCalls < MaxCalls
    /\ nCalls' = nCalls + 1
    /\ callOf' = [callOf EXCEPT ![r] = nCalls + 1]
    /\ \E readable \in BOOLEAN :
         IF ~readable
         THEN /\ err' = [err EXCEPT ![r] = "read"]
              /\ rpc' = [rpc EXCEPT ![r] = "ret"]
              /\ id' = id
         ELSE /\ id' = [id EXCEPT ![r] = store]
              /\ rpc' = [rpc EXCEPT ![r] = "parse"]
              /\ err' = err
    /\ UNCHANGED <<elsewhere, store, fields, mu, newRet, inNew, wrote, cvars, avars,
                   lockOrder, returned>>

\* The five parse steps in the order Reload runs them, on an identity file
\* whose malformed parts are bad: the first that fails names the error,
\* "nil" when all succeed.
ParseIdentity(bad) ==
    IF "keypair" \in bad THEN "keypair"
    ELSE IF "ca" \in bad THEN "ca"
    ELSE IF "sshcert" \in bad THEN "sshcert"
    ELSE IF "privkey" \in bad THEN "privkey"
    ELSE IF "knownhosts" \in bad THEN "knownhosts"
    ELSE "nil"

\* Faulty variant of Parse: the TLS material is assigned as soon as it is
\* parsed, before the SSH material is parsed.
ParseAssignsEarly(r) ==
    /\ rpc[r] = "parse"
    /\ \E bad \in Defects :
       LET e == ParseIdentity(bad) IN
       /\ err' = [err EXCEPT ![r] = e]
       /\ rpc' = [rpc EXCEPT ![r] = IF e = "nil" THEN "lock" ELSE "ret"]
       /\ IF e \in {"sshcert", "privkey", "knownhosts"}
          THEN /\ tlsRootCAs' = Material(id[r], callOf[r])
               /\ tlsCert' = Material(id[r], callOf[r])
          ELSE UNCHANGED <<tlsRootCAs, tlsCert>>
    /\ UNCHANGED <<elsewhere, store, sshCert, sshKey, sshKnownHosts, mu, newRet, id, callOf,
                   inNew, wrote, cvars, avars, hvars>>

\* keys.X509KeyPair ... sshutils.ParseKnownHosts, each followed by its
\* `if err != nil { return trace.Wrap(err) }`, on the identity read.
Parse(r) ==
    /\ rpc[r] = "parse"
    /\ \E bad \in Defects :
       LET e == ParseIdentity(bad) IN
       /\ err' = [err EXCEPT ![r] = e]
       /\ rpc' = [rpc EXCEPT ![r] = IF e = "nil" THEN "lock" ELSE "ret"]
    /\ UNCHANGED <<elsewhere, store, fields, mu, newRet, id, callOf, inNew, wrote,
                   cvars, avars, hvars>>

\* Faulty variant of Lock: the assignments are not made under the write lock.
LockNotExclusive(r) ==
    /\ rpc[r] = "lock"
    /\ lockOrder' = Append(lockOrder, callOf[r])
    /\ rpc' = [rpc EXCEPT ![r] = "setRootCAs"]
    /\ UNCHANGED <<elsewhere, store, fields, mu, newRet, id, err, callOf, inNew, wrote,
                   cvars, avars, nCalls, returned>>

\* d.mu.Lock(): announce the writer (new readers now wait).
Lock(r) ==
    /\ rpc[r] = "lock"
    /\ CanLock
    /\ mu' = [mu EXCEPT !.w = r]
    /\ rpc' = [rpc EXCEPT ![r] = "acquire"]
    /\ UNCHANGED <<elsewhere, store, fields, newRet, id, err, callOf, inNew, wrote,
                   cvars, avars, hvars>>

\* Faulty variant of Acquire: the writer does not wait for the readers.
AcquireDespiteReaders(r) ==
    /\ rpc[r] = "acquire"
    /\ mu.w = r /\ ~mu.held
    /\ mu' = [mu EXCEPT !.held = TRUE]
    /\ lockOrder' = Append(lockOrder, callOf[r])
    /\ rpc' = [rpc EXCEPT ![r] = "setRootCAs"]
    /\ UNCHANGED <<elsewhere, store, fields, newRet, id, err, callOf, inNew, wrote,
                   cvars, avars, nCalls, returned>>

\* d.mu.Lock() returns once the readers have left.
Acquire(r) ==
    /\ rpc[r] = "acquire"
    /\ CanAcquire(r)
    /\ mu' = [mu EXCEPT !.held = TRUE]
    /\ lockOrder' = Append(lockOrder, callOf[r])
    /\ rpc' = [rpc EXCEPT ![r] = "setRootCAs"]
    /\ UNCHANGED <<elsewhere, store, fields, newRet, id, err, callOf, inNew, wrote,
                   cvars, avars, nCalls, returned>>

Parsed(r) == Material(id[r], callOf[r])

\* d.tlsRootCAs = pool
SetRootCAs(r) ==
    /\ rpc[r] = "setRootCAs"
    /\ tlsRootCAs' = Parsed(r)
    /\ wrote' = [wrote EXCEPT ![r] = @ \cup {"tlsRootCAs"}]
    /\ rpc' = [rpc EXCEPT ![r] = "setCert"]
    /\ UNCHANGED <<elsewhere, store, tlsCert, sshCert, sshKey, sshKnownHosts, mu, newRet,
                   id, err, callOf, inNew, cvars, avars, hvars>>

\* d.tlsCert = &cert
SetCert(r) ==
    /\ rpc[r] = "setCert"
    /\ tlsCert' = Parsed(r)
    /\ wrote' = [wrote EXCEPT ![r] = @ \cup {"tlsCert"}]
    /\ rpc' = [rpc EXCEPT ![r] = "setSSHCert"]
    /\ UNCHANGED <<elsewhere, store, tlsRootCAs, sshCert, sshKey, sshKnownHosts, mu,
                   newRet, id, err, callOf, inNew, cvars, avars, hvars>>

\* d.sshCert = sshCert
SetSSHCert(r) ==
    /\ rpc[r] = "setSSHCert"
    /\ sshCert' = Parsed(r)
    /\ wrote' = [wrote EXCEPT ![r] = @ \cup {"sshCert"}]
    /\ rpc' = [rpc EXCEPT ![r] = "setSSHKey"]
    /\ UNCHANGED <<elsewhere, store, tlsCert, tlsRootCAs, sshKey, sshKnownHosts, mu,
                   newRet, id, err, callOf, inNew, cvars, avars, hvars>>

\* d.sshKey = sshPrivateKey
SetSSHKey(r) ==
    /\ rpc[r] = "setSSHKey"
    /\ sshKey' = Parsed(r)
    /\ wrote' = [wrote EXCEPT ![r] = @ \cup {"sshKey"}]
    /\ rpc' = [rpc EXCEPT ![r] = "setKnownHosts"]
    /\ UNCHANGED <<elsewhere, store, tlsCert, tlsRootCAs, sshCert, sshKnownHosts, mu,
                   newRet, id, err, callOf, inNew, cvars, avars, hvars>>

\* Faulty variant of SetKnownHosts: the assignment is missing.
SkipKnownHosts(r) ==
    /\ rpc[r] = "setKnownHosts"
    /\ rpc' = [rpc EXCEPT ![r] = "unlock"]
    /\ UNCHANGED <<elsewhere, store, fields, mu, newRet, id, err, callOf, inNew, wrote,
                   cvars, avars, hvars>>

\* d.sshKnownHosts = knownHosts
SetKnownHosts(r) ==
    /\ rpc[r] = "setKnownHosts"
    /\ sshKnownHosts' = Parsed(r)
    /\ wrote' = [wrote EXCEPT ![r] = @ \cup {"sshKnownHosts"}]
    /\ rpc' = [rpc EXCEPT ![r] = "unlock"]
    /\ UNCHANGED <<elsewhere, store, tlsCert, tlsRootCAs, sshCert, sshKey, mu, newRet,
                   id, err, callOf, inNew, cvars, avars, hvars>>

\* return nil, running the deferred d.mu.Unlock()
Unlock(r) ==
    /\ rpc[r] = "unlock"
    /\ mu' = [mu EXCEPT !.w = 0, !.held = FALSE]
    /\ rpc' = [rpc EXCEPT ![r] = "ret"]
    /\ UNCHANGED <<elsewhere, store, fields, newRet, id, err, callOf, inNew, wrote,
                   cvars, avars, hvars>>

\* Faulty variant of NewResult: the provider is returned along with the error.
NewResultKeepsProvider(e) == [state |-> "returned", d |-> TRUE, err |-> e]

\* What NewDynamicIdentityFileCreds returns once its d.Reload() returned e.
NewResult(e) ==
    IF e # "nil"
    THEN [state |-> "returned", d |-> FALSE, err |-> e]
    ELSE [state |-> "returned", d |-> TRUE, err |-> "nil"]

\* Reload returns to its caller; the constructor returns in turn.
Return(r) ==
    /\ rpc[r] = "ret"
    /\ returned' = IF err[r] = "nil" THEN returned \cup {Parsed(r)} ELSE returned
    /\ newRet' = IF inNew[r] THEN NewResult(err[r]) ELSE newRet
    /\ rpc' = [rpc EXCEPT ![r] = "idle"]
    /\ id' = [id EXCEPT ![r] = NoIdentity]
    /\ err' = [err EXCEPT ![r] = "nil"]
    /\ callOf' = [callOf EXCEPT ![r] = 0]
    /\ inNew' = [inNew EXCEPT ![r] = FALSE]
    /\ wrote' = [wrote EXCEPT ![r] = {}]
    /\ UNCHANGED <<elsewhere, store, fields, mu, cvars, avars, nCalls, lockOrder>>

----------------------------------------------------------------------------
\* The builders of the Credentials interface

ProviderReady == newRet.state = "returned" /\ newRet.d

\* func (d *DynamicIdentityFileCreds) Dialer: return nil, NotImplemented
Dialer ==
    /\ ProviderReady
    /\ dialRet.err = "notcalled"
    /\ dialRet' = [dialer |-> "nil", err |-> "NotImplemented"]
    /\ UNCHANGED <<elsewhere, store, fields, mu, newRet, rvars, tlsCfg, sshCfg, avars, hvars>>

\* Faulty variant of DynamicTLSConfig: the config relies on the built-in
\* verification against a RootCAs pool copied when it is built.
DynamicTLSConfigStaticRoots ==
    [built |-> TRUE, cert |-> OverProvider, roots |-> OverCopy(tlsRootCAs),
     Certificates |-> Nil, RootCAs |-> tlsRootCAs, InsecureSkipVerify |-> FALSE,
     NextProtos |-> <<NextProtoTLS>>, ServerName |-> APIDomain, User |-> "",
     at |-> LastLocked, err |-> "nil"]

\* The tls.Config TLSConfig builds: GetClientCertificate and VerifyConnection
\* are closures over d, Certificates and RootCAs stay nil.
DynamicTLSConfig ==
    [built |-> TRUE, cert |-> OverProvider, roots |-> OverProvider,
     Certificates |-> Nil, RootCAs |-> Nil, InsecureSkipVerify |-> TRUE,
     NextProtos |-> <<NextProtoTLS>>, ServerName |-> APIDomain, User |-> "",
     at |-> LastLocked, err |-> "nil"]

\* Faulty variant of TLSConfig: GetClientCertificate closes over a copy of the
\* certificate current when the config is built (as configureTLS does).
TLSConfigCopies ==
    /\ ProviderReady
    /\ ~tlsCfg.built
    /\ tlsCfg' = [DynamicTLSConfig EXCEPT !.cert = OverCopy(tlsCert)]
    /\ UNCHANGED <<elsewhere, store, fields, mu, newRet, rvars, sshCfg, dialRet, avars, hvars>>

\* func (d *DynamicIdentityFileCreds) TLSConfig: return cfg, nil
TLSConfig ==
    /\ ProviderReady
    /\ ~tlsCfg.built
    /\ tlsCfg' = DynamicTLSConfig
    /\ UNCHANGED <<elsewhere, store, fields, mu, newRet, rvars, sshCfg, dialRet, avars, hvars>>

\* Faulty variant of DynamicSSHConfig: the PublicKeysCallback closes over the
\* signer material current when the config is built.
DynamicSSHConfigCachesSigner ==
    [built |-> TRUE, cert |-> OverCopy(sshCert), roots |-> OverProvider,
     Certificates |-> Nil, RootCAs |-> Nil, InsecureSkipVerify |-> FALSE,
     NextProtos |-> <<>>, ServerName |-> "", User |-> "-teleport-internal-join",
     at |-> LastLocked, err |-> "nil"]

\* The ssh.ClientConfig SSHClientConfig builds: the PublicKeysCallback (cert)
\* and GetHostCheckers (roots) are closures over d.
DynamicSSHConfig ==
    [built |-> TRUE, cert |-> OverProvider, roots |-> OverProvider,
     Certificates |-> Nil, RootCAs |-> Nil, InsecureSkipVerify |-> FALSE,
     NextProtos |-> <<>>, ServerName |-> "", User |-> "-teleport-internal-join",
     at |-> LastLocked, err |-> "nil"]

\* func (d *DynamicIdentityFileCreds) SSHClientConfig: return cfg, nil
SSHClientConfig ==
    /\ ProviderReady
    /\ ~sshCfg.built
    /\ sshCfg' = DynamicSSHConfig
    /\ UNCHANGED <<elsewhere, store, fields, mu, newRet, rvars, tlsCfg, dialRet, avars, hvars>>

\* What a callback yields: the provider's field now, or the copy it closed over.
Call(closure, field) == IF closure.env = "d" THEN field ELSE closure.val

----------------------------------------------------------------------------
\* A TLS handshake using tlsCfg: the stack verifies the server's chain with
\* VerifyConnection, then asks GetClientCertificate for the client certificate.

\* The handshake receives the server's chain and invokes VerifyConnection.
Handshake(a) ==
    /\ tlsCfg.built
    /\ apc[a] = "idle"
    /\ seen' = [seen EXCEPT ![a] = returned]
    /\ apc' = [apc EXCEPT ![a] = "vcRLock"]
    /\ UNCHANGED <<elsewhere, store, fields, mu, newRet, rvars, cvars, obs, peer, cbErr, hvars>>

\* VerifyConnection: d.mu.RLock(); defer d.mu.RUnlock()
VerifyConnectionRLock(a) ==
    /\ apc[a] = "vcRLock"
    /\ CanRLock
    /\ mu' = RLock(a)
    /\ apc' = [apc EXCEPT ![a] = "vcOpts"]
    /\ UNCHANGED <<elsewhere, store, fields, newRet, rvars, cvars, obs, seen, peer, cbErr, hvars>>

\* opts := x509.VerifyOptions{..., Roots: d.tlsRootCAs}
VerifyConnectionOpts(a) ==
    /\ apc[a] = "vcOpts"
    /\ obs' = [obs EXCEPT ![a].roots = Call(tlsCfg.roots, tlsRootCAs)]
    /\ apc' = [apc EXCEPT ![a] = "vcVerify"]
    /\ UNCHANGED <<elsewhere, store, fields, mu, newRet, rvars, cvars, seen, peer, cbErr, hvars>>

\* The tls.ConnectionState of a handshake under cfg with the peer p: the
\* ServerName is the one the config sent as SNI, not the address dialed.
ConnectionState(cfg, p) ==
    [ServerName |-> cfg.ServerName, PeerCertificates |-> p.chain]

\* Faulty variant of VerifyOptions: the leaf is verified for the address dialed.
VerifyOptionsForEndpoint(a, p) ==
    [DNSName |-> p.addr,
     Intermediates |-> {p.chain[i] : i \in 2..Len(p.chain)},
     Roots |-> obs[a].roots]

\* opts := x509.VerifyOptions{DNSName: state.ServerName, Intermediates: ...,
\* Roots: d.tlsRootCAs} with state.PeerCertificates[1:] added to Intermediates
VerifyOptions(a, p) ==
    LET state == ConnectionState(tlsCfg, p) IN
    [DNSName |-> state.ServerName,
     Intermediates |-> {state.PeerCertificates[i] :
                          i \in 2..Len(state.PeerCertificates)},
     Roots |-> obs[a].roots]

\* cert.Verify(opts): the certificate is signed by a root of opts.Roots or by
\* an intermediate of opts.Intermediates that one signed, and is for
\* opts.DNSName.
Verify(cert, opts) ==
    IF /\ opts.Roots # Nil
       /\ \/ cert.issuer = RootCA(opts.Roots.ver)
          \/ \E i \in opts.Intermediates :
                 i.subject = cert.issuer /\ i.issuer = RootCA(opts.Roots.ver)
       /\ opts.DNSName \in cert.names
    THEN "nil" ELSE "verify"

\* _, err := state.PeerCertificates[0].Verify(opts), for the chain the server
\* at the address dialed presented
VerifyConnectionVerify(a) ==
    /\ apc[a] = "vcVerify"
    /\ \E addr \in Endpoints : \E chain \in PeerChains :
         LET p == [addr |-> addr, chain |-> chain] IN
         /\ peer' = [peer EXCEPT ![a] = p]
         /\ cbErr' = [cbErr EXCEPT ![a] = Verify(p.chain[1], VerifyOptions(a, p))]
    /\ apc' = [apc EXCEPT ![a] = "vcReturn"]
    /\ UNCHANGED <<elsewhere, store, fields, mu, newRet, rvars, cvars, obs, seen, hvars>>

\* Faulty variant of VerifyConnectionReturn: a failed verification drops the
\* trusted roots.
VerifyConnectionEvicts(a) ==
    /\ apc[a] = "vcReturn"
    /\ mu' = RUnlock(a)
    /\ IF cbErr[a] = "nil"
       THEN /\ apc' = [apc EXCEPT ![a] = "gcRLock"]
            /\ seen' = [seen EXCEPT ![a] = returned]
            /\ tlsRootCAs' = tlsRootCAs
       ELSE /\ apc' = [apc EXCEPT ![a] = "done"]
            /\ seen' = seen
            /\ tlsRootCAs' = Nil
    /\ peer' = [peer EXCEPT ![a] = NoPeer]
    /\ UNCHANGED <<elsewhere, store, tlsCert, sshCert, sshKey, sshKnownHosts, newRet, rvars,
                   cvars, obs, cbErr, hvars>>

\* return err, running the deferred RUnlock; a failed verification aborts the
\* handshake, otherwise the stack invokes GetClientCertificate.
VerifyConnectionReturn(a) ==
    /\ apc[a] = "vcReturn"
    /\ mu' = RUnlock(a)
    /\ IF cbErr[a] = "nil"
       THEN /\ apc' = [apc EXCEPT ![a] = "gcRLock"]
            /\ seen' = [seen EXCEPT ![a] = returned]
       ELSE /\ apc' = [apc EXCEPT ![a] = "done"]
            /\ seen' = seen
    /\ peer' = [peer EXCEPT ![a] = NoPeer]
    /\ UNCHANGED <<elsewhere, store, fields, newRet, rvars, cvars, obs, cbErr, hvars>>

\* GetClientCertificate: d.mu.RLock(); defer d.mu.RUnlock()
GetClientCertificateRLock(a) ==
    /\ apc[a] = "gcRLock"
    /\ CanRLock
    /\ mu' = RLock(a)
    /\ apc' = [apc EXCEPT ![a] = "gcRead"]
    /\ UNCHANGED <<elsewhere, store, fields, newRet, rvars, cvars, obs, seen, peer, cbErr, hvars>>

\* return d.tlsCert, nil: the result is evaluated
GetClientCertificateRead(a) ==
    /\ apc[a] = "gcRead"
    /\ obs' = [obs EXCEPT ![a].cert = Call(tlsCfg.cert, tlsCert)]
    /\ apc' = [apc EXCEPT ![a] = "gcReturn"]
    /\ UNCHANGED <<elsewhere, store, fields, mu, newRet, rvars, cvars, seen, peer, cbErr, hvars>>

\* ... and the deferred RUnlock runs
GetClientCertificateReturn(a) ==
    /\ apc[a] = "gcReturn"
    /\ mu' = RUnlock(a)
    /\ apc' = [apc EXCEPT ![a] = "done"]
    /\ UNCHANGED <<elsewhere, store, fields, newRet, rvars, cvars, obs, seen, peer, cbErr, hvars>>

\* The connection attempt is over; the next one starts afresh.
AttemptEnd(a) ==
    /\ apc[a] = "done"
    /\ apc' = [apc EXCEPT ![a] = "idle"]
    /\ obs' = [obs EXCEPT ![a] = NoObs]
    /\ seen' = [seen EXCEPT ![a] = {}]
    /\ peer' = [peer EXCEPT ![a] = NoPeer]
    /\ cbErr' = [cbErr EXCEPT ![a] = "nil"]
    /\ UNCHANGED <<elsewhere, store, fields, mu, newRet, rvars, cvars, hvars>>

----------------------------------------------------------------------------
\* An SSH handshake using sshCfg: the stack checks the host key against
\* GetHostCheckers during key exchange, then authenticates with the signers
\* of the PublicKeysCallback.

\* The handshake receives the host certificate and the HostKeyCallback
\* invokes GetHostCheckers.
Dial(a) ==
    /\ sshCfg.built
    /\ apc[a] = "idle"
    /\ seen' = [seen EXCEPT ![a] = returned]
    /\ apc' = [apc EXCEPT ![a] = "hcRLock"]
    /\ UNCHANGED <<elsewhere, store, fields, mu, newRet, rvars, cvars, obs, peer, cbErr, hvars>>

\* GetHostCheckers: d.mu.RLock(); defer d.mu.RUnlock()
GetHostCheckersRLock(a) ==
    /\ apc[a] = "hcRLock"
    /\ CanRLock
    /\ mu' = RLock(a)
    /\ apc' = [apc EXCEPT ![a] = "hcRead"]
    /\ UNCHANGED <<elsewhere, store, fields, newRet, rvars, cvars, obs, seen, peer, cbErr, hvars>>

\* return d.sshKnownHosts, nil: the result is evaluated
GetHostCheckersRead(a) ==
    /\ apc[a] = "hcRead"
    /\ obs' = [obs EXCEPT ![a].hosts = Call(sshCfg.roots, sshKnownHosts)]
    /\ apc' = [apc EXCEPT ![a] = "hcReturn"]
    /\ UNCHANGED <<elsewhere, store, fields, mu, newRet, rvars, cvars, seen, peer, cbErr, hvars>>

\* ... the deferred RUnlock runs and the HostKeyCallback checks the host
\* certificate, issued under version v of the host CAs, against the
\* checkers; on success the stack authenticates.
GetHostCheckersReturn(a) ==
    /\ apc[a] = "hcReturn"
    /\ mu' = RUnlock(a)
    /\ \E v \in 1..MaxVer :
         IF obs[a].hosts.ver = v
         THEN /\ apc' = [apc EXCEPT ![a] = "pkRLock"]
              /\ seen' = [seen EXCEPT ![a] = returned]
              /\ cbErr' = cbErr
         ELSE /\ apc' = [apc EXCEPT ![a] = "done"]
              /\ seen' = seen
              /\ cbErr' = [cbErr EXCEPT ![a] = "hostkey"]
    /\ UNCHANGED <<elsewhere, store, fields, newRet, rvars, cvars, obs, peer, hvars>>

\* Faulty variant of PublicKeysRLock: the callback does not wait for the writer.
PublicKeysNoRLock(a) ==
    /\ apc[a] = "pkRLock"
    /\ apc' = [apc EXCEPT ![a] = "pkCert"]
    /\ UNCHANGED <<elsewhere, store, fields, mu, newRet, rvars, cvars, obs, seen, peer, cbErr, hvars>>

\* PublicKeysCallback: d.mu.RLock(); defer d.mu.RUnlock()
PublicKeysRLock(a) ==
    /\ apc[a] = "pkRLock"
    /\ CanRLock
    /\ mu' = RLock(a)
    /\ apc' = [apc EXCEPT ![a] = "pkCert"]
    /\ UNCHANGED <<elsewhere, store, fields, newRet, rvars, cvars, obs, seen, peer, cbErr, hvars>>

\* Faulty variant of PublicKeysCert: the certificate is read through a getter
\* that takes the read lock again.
PublicKeysCertRLocksAgain(a) ==
    /\ apc[a] = "pkCert"
    /\ CanRLock
    /\ obs' = [obs EXCEPT ![a].sshCert = Call(sshCfg.cert, sshCert)]
    /\ apc' = [apc EXCEPT ![a] = "pkKey"]
    /\ UNCHANGED <<elsewhere, store, fields, mu, newRet, rvars, cvars, seen, peer, cbErr, hvars>>

\* sshutils.SSHSigner(d.sshCert, d.sshKey): the first argument is evaluated
PublicKeysCert(a) ==
    /\ apc[a] = "pkCert"
    /\ obs' = [obs EXCEPT ![a].sshCert = Call(sshCfg.cert, sshCert)]
    /\ apc' = [apc EXCEPT ![a] = "pkKey"]
    /\ UNCHANGED <<elsewhere, store, fields, mu, newRet, rvars, cvars, seen, peer, cbErr, hvars>>

\* ... then the second
PublicKeysKey(a) ==
    /\ apc[a] = "pkKey"
    /\ obs' = [obs EXCEPT ![a].sshKey = Call(sshCfg.cert, sshKey)]
    /\ apc' = [apc EXCEPT ![a] = "pkSigner"]
    /\ UNCHANGED <<elsewhere, store, fields, mu, newRet, rvars, cvars, seen, peer, cbErr, hvars>>

\* The versions of the identity file whose SSH certificate was issued for a
\* key other than the file's private key: each part parses, and Reload, which
\* never pairs them, installs both.
ForeignCert == {1}

\* The signer sshutils.SSHSigner builds: an error unless the certificate and
\* the key are both present and the certificate certifies the key.
SSHSigner(cert, key) ==
    IF cert = Nil \/ key = Nil \/ cert.ver # key.ver \/ cert.ver \in ForeignCert
    THEN "signer" ELSE "nil"

\* sshSigner, err := sshutils.SSHSigner(...)
PublicKeysSigner(a) ==
    /\ apc[a] = "pkSigner"
    /\ cbErr' = [cbErr EXCEPT ![a] = SSHSigner(obs[a].sshCert, obs[a].sshKey)]
    /\ apc' = [apc EXCEPT ![a] = "pkReturn"]
    /\ UNCHANGED <<elsewhere, store, fields, mu, newRet, rvars, cvars, obs, seen, peer, hvars>>

\* return, running the deferred RUnlock
PublicKeysReturn(a) ==
    /\ apc[a] = "pkReturn"
    /\ mu' = RUnlock(a)
    /\ apc' = [apc EXCEPT ![a] = "done"]
    /\ UNCHANGED <<elsewhere, store, fields, newRet, rvars, cvars, obs, seen, peer, cbErr, hvars>>

----------------------------------------------------------------------------
Next ==
    \/ WriteStore
    \/ \E r \in Reloaders : NewDynamicIdentityFileCreds(r)
    \/ \E r \in Reloaders : Reload(r)
    \/ \E r \in Reloaders : ReadFile(r)
    \/ \E r \in Reloaders : Parse(r)
    \/ \E r \in Reloaders : Lock(r)
    \/ \E r \in Reloaders : Acquire(r)
    \/ \E r \in Reloaders : SetRootCAs(r)
    \/ \E r \in Reloaders : SetCert(r)
    \/ \E r \in Reloaders : SetSSHCert(r)
    \/ \E r \in Reloaders : SetSSHKey(r)
    \/ \E r \in Reloaders : SetKnownHosts(r)
    \/ \E r \in Reloaders : Unlock(r)
    \/ \E r \in Reloaders : Return(r)
    \/ Dialer
    \/ TLSConfig
    \/ SSHClientConfig
    \/ \E a \in Attempts : Handshake(a)
    \/ \E a \in Attempts : VerifyConnectionRLock(a)
    \/ \E a \in Attempts : VerifyConnectionOpts(a)
    \/ \E a \in Attempts : VerifyConnectionVerify(a)
    \/ \E a \in Attempts : VerifyConnectionReturn(a)
    \/ \E a \in Attempts : GetClientCertificateRLock(a)
    \/ \E a \in Attempts : GetClientCertificateRead(a)
    \/ \E a \in Attempts : GetClientCertificateReturn(a)
    \/ \E a \in Attempts : Dial(a)
    \/ \E a \in Attempts : GetHostCheckersRLock(a)
    \/ \E a \in Attempts : GetHostCheckersRead(a)
    \/ \E a \in Attempts : GetHostCheckersReturn(a)
    \/ \E a \in Attempts : PublicKeysRLock(a)
    \/ \E a \in Attempts : PublicKeysCert(a)
    \/ \E a \in Attempts : PublicKeysKey(a)
    \/ \E a \in Attempts : PublicKeysSigner(a)
    \/ \E a \in Attempts : PublicKeysReturn(a)
    \/ \E a \in Attempts : AttemptEnd(a)

----------------------------------------------------------------------------
\* The static credential sources: identityCredsFile, identityCredsString and
\* profileCreds. Each loads its material on first use and keeps it.

\* Number of calls made on one credentials object.
MaxOps == 4

\* What the path, the directory or the string holds: nothing (a string is
\* never missing), bytes that do not decode, an identity that decodes but
\* whose certificates do not parse, or a good identity; and its version.
Backings == [state : {"missing", "malformed", "badcert", "ok"}, ver : 1..MaxVer]
\* c.identityFile / c.profile when nil.
NotLoaded == [state |-> "nil", ver |-> 0]
NoCreds == [kind |-> "none", loaded |-> NotLoaded]
NoRet == [n |-> 0, op |-> "none", err |-> "nil", cause |-> "none", cfg |-> 0]
\* Why a loader fails, and the kinds of error it and the parsers may return.
Causes == {"unavailable", "malformed"}
LoaderKinds == {"NotFound", "BadParameter"}

InitStatic ==
    /\ backing \in {b \in Backings : b.ver = 1}
    /\ creds = NoCreds
    /\ sret = NoRet
    /\ loads = 0
    /\ kinds = [c \in Causes |-> {}]

\* No static source is in use.
NoStatic == InitStatic /\ backing.state = "ok"

\* The environment replaces what the path or directory holds.
WriteBacking ==
    /\ creds.kind # "string"
    /\ backing.ver < MaxVer
    /\ \E st \in {"missing", "malformed", "badcert", "ok"} :
         backing' = [state |-> st, ver |-> backing.ver + 1]
    /\ UNCHANGED <<outsideStatic, creds, sret, loads, kinds>>

\* return &identityCredsFile{path: path}
LoadIdentityFile ==
    /\ creds.kind = "none"
    /\ creds' = [kind |-> "file", loaded |-> NotLoaded]
    /\ sret' = [NoRet EXCEPT !.op = "LoadIdentityFile"]
    /\ UNCHANGED <<outsideStatic, backing, loads, kinds>>

\* return &identityCredsString{content: content}
LoadIdentityFileFromString ==
    /\ creds.kind = "none"
    /\ backing.state # "missing"
    /\ creds' = [kind |-> "string", loaded |-> NotLoaded]
    /\ sret' = [NoRet EXCEPT !.op = "LoadIdentityFileFromString"]
    /\ UNCHANGED <<outsideStatic, backing, loads, kinds>>

\* return &profileCreds{dir: dir, name: name}
LoadProfile ==
    /\ creds.kind = "none"
    /\ creds' = [kind |-> "profile", loaded |-> NotLoaded]
    /\ sret' = [NoRet EXCEPT !.op = "LoadProfile"]
    /\ UNCHANGED <<outsideStatic, backing, loads, kinds>>

\* identityfile.ReadFile, identityfile.FromString, profile.FromDir on what
\* the backing holds: the value, or nil with an error of kind k.
Loader(b, k) ==
    IF b.state = "missing"
    THEN [val |-> NotLoaded, err |-> k, cause |-> "unavailable"]
    ELSE IF b.state = "malformed"
    THEN [val |-> NotLoaded, err |-> k, cause |-> "malformed"]
    ELSE [val |-> b, err |-> "nil", cause |-> "none"]

\* Faulty variant of load: the material is loaded afresh on every call.
loadAlways(c, b, k) ==
    LET l == Loader(b, k) IN
    [c |-> [c EXCEPT !.loaded = l.val],
     err |-> IF l.err # "nil" THEN "BadParameter" ELSE "nil",
     cause |-> l.cause, invoked |-> TRUE]

\* func (c *identityCredsFile) load(), and the two like it: nothing to do
\* when the material is there; otherwise the loader's value is assigned and
\* its error, if any, replaced by trace.BadParameter("... could not be decoded").
load(c, b, k) ==
    IF c.loaded # NotLoaded
    THEN [c |-> c, err |-> "nil", cause |-> "none", invoked |-> FALSE]
    ELSE LET l == Loader(b, k) IN
         [c |-> [c EXCEPT !.loaded = l.val],
          err |-> IF l.err # "nil" THEN "BadParameter" ELSE "nil",
          cause |-> l.cause, invoked |-> TRUE]

\* c.load(), then c.identityFile.TLSConfig() / .SSHClientConfig() (or the
\* profile's), each error returned through trace.Wrap, which keeps its kind.
CredsCall(op) ==
    /\ creds.kind # "none"
    /\ sret.n < MaxOps
    /\ \E k \in LoaderKinds :
         LET l == load(creds, backing, k)
             r == IF l.err # "nil"
                  THEN [err |-> l.err, cause |-> l.cause, cfg |-> 0]
                  ELSE IF l.c.loaded.state = "badcert"
                  THEN [err |-> k, cause |-> "malformed", cfg |-> 0]
                  ELSE [err |-> "nil", cause |-> "none", cfg |-> l.c.loaded.ver]
         IN  /\ creds' = l.c
             /\ loads' = loads + (IF l.invoked THEN 1 ELSE 0)
             /\ sret' = [n |-> sret.n + 1, op |-> op, err |-> r.err,
                         cause |-> r.cause, cfg |-> r.cfg]
             /\ kinds' = IF l.err # "nil"
                         THEN [kinds EXCEPT ![l.cause] = @ \cup {l.err}]
                         ELSE kinds
    /\ UNCHANGED <<outsideStatic, backing>>

\* func (c *identityCredsFile) TLSConfig(), and the two like it
CredsTLSConfig == CredsCall("TLSConfig")

\* func (c *identityCredsFile) SSHClientConfig(), and the two like it
CredsSSHClientConfig == CredsCall("SSHClientConfig")

\* func (c *profileCreds) Dialer: c.SSHClientConfig(), c.profile.TLSConfig(),
\* NewProxyDialer
ProfileDialer == creds.kind = "profile" /\ CredsCall("Dialer")

\* func (c *identityCredsFile) Dialer, func (c *identityCredsString) Dialer:
\* return nil, trace.NotImplemented("no dialer")
CredsDialer ==
    /\ creds.kind \in {"file", "string"}
    /\ sret.n < MaxOps
    /\ sret' = [n |-> sret.n + 1, op |-> "Dialer", err |-> "NotImplemented",
                cause |-> "none", cfg |-> 0]
    /\ UNCHANGED <<outsideStatic, backing, creds, loads, kinds>>

StaticNext ==
    \/ WriteBacking
    \/ LoadIdentityFile
    \/ LoadIdentityFileFromString
    \/ LoadProfile
    \/ CredsTLSConfig
    \/ CredsSSHClientConfig
    \/ ProfileDialer
    \/ CredsDialer

----------------------------------------------------------------------------
\* configureTLS, which the static sources apply to the tls.Config of their
\* identity.

\* Capacity of the NextProtos slice of a config given to configureTLS.
MaxProtos == 2

\* A Go slice: its backing array (as long as the capacity) and its length.
Elements(sl) == SubSeq(sl.arr, 1, sl.len)
Slices(S) ==
    UNION {[arr : [1..cap -> S], len : 0..cap] : cap \in 0..MaxProtos}

NoCallback == [kind |-> "nil", cert |-> 0]
\* The configs a caller may give: built by identityFile.TLSConfig() or by hand.
TLSConfigs ==
    [ptr : {1}, NextProtos : Slices({"h2", "http/1.1"}),
     ServerName : {"", "proxy.example.com"},
     Certificates : {<<>>, <<1>>, <<1, 2>>, <<2, 1>>},
     GetClientCertificate : {NoCallback, [kind |-> "own", cert |-> 9]}]
NoTLSConfig ==
    [ptr |-> 0, NextProtos |-> [arr |-> <<>>, len |-> 0], ServerName |-> "",
     Certificates |-> <<>>, GetClientCertificate |-> NoCallback]

\* append(s, x): into the spare capacity of the backing array if there is
\* any (the array is shared with every slice over it), else into a new array.
GoAppend(sl, x) ==
    IF sl.len < Len(sl.arr)
    THEN [arr |-> [sl.arr EXCEPT ![sl.len + 1] = x], len |-> sl.len + 1, shared |-> TRUE]
    ELSE [arr |-> Append(Elements(sl), x), len |-> sl.len + 1, shared |-> FALSE]

\* utils.Deduplicate: the elements in the order of their first occurrence.
RECURSIVE Deduplicate(_)
Deduplicate(in) ==
    IF Len(in) <= 1 THEN in
    ELSE LET front == Deduplicate(SubSeq(in, 1, Len(in) - 1))
             last == in[Len(in)]
         IN  IF \E i \in 1..Len(front) : front[i] = last
             THEN front ELSE Append(front, last)

\* Faulty variant of configureTLS: the config given is changed in place.
configureTLSInPlace(c) ==
    LET app == GoAppend(c.NextProtos, NextProtoTLS)
        protos == Deduplicate(Elements(app))
        out == [c EXCEPT
                  !.NextProtos = [arr |-> protos, len |-> Len(protos)],
                  !.ServerName = IF @ = "" THEN APIDomain ELSE @,
                  !.Certificates = <<>>,
                  !.GetClientCertificate =
                      IF Len(c.Certificates) > 0
                      THEN [kind |-> "closure", cert |-> c.Certificates[1]] ELSE @]
    IN  [out |-> out, arg |-> out]

\* func configureTLS(c *tls.Config) *tls.Config: the result, and the config
\* given as the call leaves it (Clone copies the slice headers, so the
\* clone's NextProtos is over the array of c's).
configureTLS(c) ==
    LET tlsConfig == [c EXCEPT !.ptr = c.ptr + 1]
        app == GoAppend(tlsConfig.NextProtos, NextProtoTLS)
        protos == Deduplicate(Elements(app))
        named == [tlsConfig EXCEPT
                    !.NextProtos = [arr |-> protos, len |-> Len(protos)],
                    !.ServerName = IF @ = "" THEN APIDomain ELSE @]
        out == IF Len(named.Certificates) > 0
               THEN [named EXCEPT
                       !.Certificates = <<>>,
                       !.GetClientCertificate =
                           [kind |-> "closure", cert |-> named.Certificates[1]]]
               ELSE named
    IN  [out |-> out,
         arg |-> IF app.shared THEN [c EXCEPT !.NextProtos.arr = app.arr] ELSE c]

InitConfigure ==
    /\ cIn \in TLSConfigs
    /\ cArg = cIn
    /\ cOut = NoTLSConfig
    /\ cGot = 0

\* configureTLS is not in use.
NoConfigure == cIn = NoTLSConfig /\ cArg = cIn /\ cOut = NoTLSConfig /\ cGot = 0

\* return configureTLS(tlsConfig), nil
ConfigureTLS ==
    /\ cOut = NoTLSConfig
    /\ LET r == configureTLS(cArg) IN cOut' = r.out /\ cArg' = r.arg
    /\ UNCHANGED <<outsideConfigure, cIn, cGot>>

\* The handshake asks the result for the client certificate.
CallGetClientCertificate ==
    /\ cOut # NoTLSConfig
    /\ cGot = 0
    /\ cOut.GetClientCertificate.kind # "nil"
    /\ cGot' = cOut.GetClientCertificate.cert
    /\ UNCHANGED <<outsideConfigure, cIn, cArg, cOut>>

ConfigureNext == ConfigureTLS \/ CallGetClientCertificate

----------------------------------------------------------------------------
\* readDMIInfoAccordingToMode (device trust, Linux): the DMI info is read
\* from sysfs, else from the cache, else through sudo, as the mode allows.

\* Number of calls of readDMIInfoAccordingToMode.
MaxDMICalls == 3

\* The CollectDataMode values the switch names, and one it does not.
CollectDataModes ==
    {"CollectedDataNeverEscalate", "CollectedDataMaybeEscalate",
     "CollectedDataAlwaysEscalate", "unknown"}

\* No call is running: the cache file is as the calls so far left it.
NoDMICall(n, cache) ==
    [pc |-> "idle", n |-> n, mode |-> "unknown", dmiInfo |-> "nil",
     sysfs |-> "", cached |-> "", escalated |-> "", saved |-> <<>>,
     calls |-> <<>>, cache |-> cache,
     ret |-> [dmiInfo |-> "nil", err |-> "nil"]]

InitDMI == dmi = NoDMICall(0, "none")

\* collectDeviceData calls readDMIInfoAccordingToMode(mode).
readDMIInfoAccordingToMode ==
    /\ dmi.pc \in {"idle", "done"}
    /\ dmi.n < MaxDMICalls
    /\ \E mode \in CollectDataModes :
         dmi' = [NoDMICall(dmi.n + 1, dmi.cache) EXCEPT !.pc = "sysfs", !.mode = mode]
    /\ UNCHANGED outsideDMI

\* Where the switch on the mode leads after a permission error.
Switch(mode) ==
    CASE mode \in {"CollectedDataNeverEscalate", "CollectedDataMaybeEscalate"} -> "cached"
      [] mode = "CollectedDataAlwaysEscalate" -> "escalate"
      [] OTHER -> "done"

\* dmiInfo, err := cddFuncs.dmiInfoFromSysfs(): all of the info, or what
\* could be read of it with a permission error or another; only the
\* permission error leads on, to the switch.
dmiInfoFromSysfs ==
    /\ dmi.pc = "sysfs"
    /\ \E out \in {"ok", "permission", "other"} :
         LET info == IF out = "ok" THEN "sysfs" ELSE "partial" IN
         dmi' = [dmi EXCEPT
                   !.calls = Append(@, "dmiInfoFromSysfs"),
                   !.sysfs = out,
                   !.dmiInfo = info,
                   !.pc = IF out = "permission" THEN Switch(dmi.mode) ELSE "done",
                   !.ret = [dmiInfo |-> info, err |-> "nil"]]
    /\ UNCHANGED outsideDMI

\* Faulty variant of readDMIInfoCached: a cache miss escalates in every mode.
readDMIInfoCachedThenEscalate ==
    /\ dmi.pc = "cached"
    /\ \E hit \in {h \in BOOLEAN : h => dmi.cache \notin {"none", "truncated"}} :
         dmi' = [dmi EXCEPT
                   !.calls = Append(@, "readDMIInfoCached"),
                   !.cached = IF hit THEN "hit" ELSE "miss",
                   !.pc = IF hit THEN "done" ELSE "escalate",
                   !.ret = IF hit THEN [dmiInfo |-> dmi.cache, err |-> "nil"] ELSE @]
    /\ UNCHANGED outsideDMI

\* dmiCached, err := cddFuncs.readDMIInfoCached(): a hit returns the cached
\* info; a miss returns the sysfs info in mode CollectedDataNeverEscalate
\* and falls through to the escalated read otherwise.
readDMIInfoCached ==
    /\ dmi.pc = "cached"
    /\ \E hit \in {h \in BOOLEAN : h => dmi.cache \notin {"none", "truncated"}} :
         dmi' = [dmi EXCEPT
                   !.calls = Append(@, "readDMIInfoCached"),
                   !.cached = IF hit THEN "hit" ELSE "miss",
                   !.pc = IF hit \/ dmi.mode = "CollectedDataNeverEscalate"
                          THEN "done" ELSE "escalate",
                   !.ret = IF hit THEN [dmiInfo |-> dmi.cache, err |-> "nil"] ELSE @]
    /\ UNCHANGED outsideDMI

\* Faulty variant of readDMIInfoEscalated: a failure falls back to the info
\* read from sysfs.
readDMIInfoEscalatedFallsBack ==
    /\ dmi.pc = "escalate"
    /\ \E ok \in BOOLEAN :
         dmi' = [dmi EXCEPT
                   !.calls = Append(@, "readDMIInfoEscalated"),
                   !.escalated = IF ok THEN "ok" ELSE "failed",
                   !.dmiInfo = IF ok THEN "escalated" ELSE @,
                   !.pc = IF ok THEN "save" ELSE "done",
                   !.ret = IF ok THEN [dmiInfo |-> "escalated", err |-> "nil"] ELSE @]
    /\ UNCHANGED outsideDMI

\* dmiInfo, err = cddFuncs.readDMIInfoEscalated(): a failure is returned,
\* with no info.
readDMIInfoEscalated ==
    /\ dmi.pc = "escalate"
    /\ \E ok \in BOOLEAN :
         dmi' = [dmi EXCEPT
                   !.calls = Append(@, "readDMIInfoEscalated"),
                   !.escalated = IF ok THEN "ok" ELSE "failed",
                   !.dmiInfo = IF ok THEN "escalated" ELSE "nil",
                   !.pc = IF ok THEN "save" ELSE "done",
                   !.ret = IF ok THEN [dmiInfo |-> "escalated", err |-> "nil"]
                           ELSE [dmiInfo |-> "nil", err |-> "escalated"]]
    /\ UNCHANGED outsideDMI

\* What saveDMIInfoToCache(info) can leave in dmi.json: the info; on a
\* failure, what was there (the state directory or the file could not be
\* opened) or a truncated file (the file was opened with O_TRUNC and the
\* encoding or the close failed).
SaveOutcomes(info, cache) == {info, cache, "truncated"}

\* Faulty variant of saveDMIInfoToCache: a failed save fails the call.
saveDMIInfoToCacheOrFail ==
    /\ dmi.pc = "save"
    /\ \E file \in SaveOutcomes(dmi.dmiInfo, dmi.cache) :
         dmi' = [dmi EXCEPT
                   !.calls = Append(@, "saveDMIInfoToCache"),
                   !.saved = Append(@, dmi.dmiInfo),
                   !.cache = file,
                   !.ret = IF file = dmi.dmiInfo THEN @
                           ELSE [dmiInfo |-> "nil", err |-> "save"],
                   !.pc = "done"]
    /\ UNCHANGED outsideDMI

\* cddFuncs.saveDMIInfoToCache(dmiInfo), its error logged and dropped
saveDMIInfoToCache ==
    /\ dmi.pc = "save"
    /\ \E file \in SaveOutcomes(dmi.dmiInfo, dmi.cache) :
         dmi' = [dmi EXCEPT
                   !.calls = Append(@, "saveDMIInfoToCache"),
                   !.saved = Append(@, dmi.dmiInfo),
                   !.cache = file,
                   !.pc = "done"]
    /\ UNCHANGED outsideDMI

DMINext ==
    \/ readDMIInfoAccordingToMode
    \/ dmiInfoFromSysfs
    \/ readDMIInfoCached
    \/ readDMIInfoEscalated
    \/ saveDMIInfoToCache

----------------------------------------------------------------------------
\* collectDeviceData (device trust, Linux): the OS release is parsed in a
\* goroutine while the caller reads the DMI info and the current user.

\* collectDeviceData is not running and has started no goroutine.
NoCollect ==
    cdd = [pc |-> "idle", go |-> "none", osRelease |-> "nil",
           osReleaseC |-> <<>>, dmiInfo |-> "nil",
           ret |-> [data |-> "nil", err |-> "nil"]]

\* osReleaseC := make(chan *linux.OSRelease, 1)
ChanCap == 1

\* collectDeviceData(mode): the channel is made and the goroutine started.
collectDeviceData ==
    /\ cdd.pc = "idle"
    /\ cdd' = [cdd EXCEPT !.pc = "dmi", !.go = "parse"]
    /\ UNCHANGED <<outsideDevice, dmi>>

\* The goroutine: osRelease, err := cddFuncs.parseOSRelease(); on an error
\* osRelease = &linux.OSRelease{}.
parseOSRelease ==
    /\ cdd.go = "parse"
    /\ \E ok \in BOOLEAN :
         cdd' = [cdd EXCEPT !.go = "send",
                            !.osRelease = IF ok THEN "parsed" ELSE "empty"]
    /\ UNCHANGED <<outsideDevice, dmi>>

\* Faulty variant of SendOSRelease: the channel has no buffer, the send
\* waits for the receiver.
SendOSReleaseUnbuffered ==
    /\ cdd.go = "send"
    /\ cdd.pc = "recv"
    /\ cdd' = [cdd EXCEPT !.go = "done",
                          !.osReleaseC = Append(@, cdd.osRelease)]
    /\ UNCHANGED <<outsideDevice, dmi>>

\* The goroutine: osReleaseC <- osRelease, which waits while the buffer is
\* full, and the goroutine ends.
SendOSRelease ==
    /\ cdd.go = "send"
    /\ Len(cdd.osReleaseC) < ChanCap
    /\ cdd' = [cdd EXCEPT !.go = "done",
                          !.osReleaseC = Append(@, cdd.osRelease)]
    /\ UNCHANGED <<outsideDevice, dmi>>

\* dmiInfo, err := readDMIInfoAccordingToMode(mode): its steps.
CollectDMIInfo ==
    /\ cdd.pc = "dmi"
    /\ dmi.pc # "done"
    /\ DMINext

\* readDMIInfoAccordingToMode returned: its error is returned, without a
\* receive from the channel.
CollectDMIInfoReturned ==
    /\ cdd.pc = "dmi"
    /\ dmi.pc = "done"
    /\ cdd' = IF dmi.ret.err # "nil"
              THEN [cdd EXCEPT !.pc = "done",
                               !.ret = [data |-> "nil", err |-> dmi.ret.err]]
              ELSE [cdd EXCEPT !.pc = "user", !.dmiInfo = dmi.ret.dmiInfo]
    /\ UNCHANGED <<outsideDevice, dmi>>

\* u, err := user.Current(): its error is returned, without a receive from
\* the channel.
UserCurrent ==
    /\ cdd.pc = "user"
    /\ \E ok \in BOOLEAN :
         cdd' = IF ok THEN [cdd EXCEPT !.pc = "recv"]
                ELSE [cdd EXCEPT !.pc = "done",
                                 !.ret = [data |-> "nil", err |-> "user"]]
    /\ UNCHANGED <<outsideDevice, dmi>>

\* osRelease := <-osReleaseC, which waits for a value, and the return of the
\* collected data.
ReceiveOSRelease ==
    /\ cdd.pc = "recv"
    /\ cdd.osReleaseC # <<>>
    /\ cdd' = [cdd EXCEPT
                  !.pc = "done",
                  !.osReleaseC = Tail(@),
                  !.ret = [data |-> [dmiInfo |-> cdd.dmiInfo,
                                     osRelease |-> Head(cdd.osReleaseC)],
                           err |-> "nil"]]
    /\ UNCHANGED <<outsideDevice, dmi>>

\* The steps of the goroutine.
Goroutine == parseOSRelease \/ SendOSRelease

CollectNext ==
    \/ collectDeviceData
    \/ Goroutine
    \/ CollectDMIInfo
    \/ CollectDMIInfoReturned
    \/ UserCurrent
    \/ ReceiveOSRelease

----------------------------------------------------------------------------
\* readDMIInfoEscalated: what of the output of `sudo -n tsh device dmi-read`
\* is handed to json.Unmarshal.

\* Length of the output.
MaxOut == 3

\* The bytes of the output: the braces, white space, anything else.
Bytes == {"{", "}", " ", "s"}

\* The strings of at most n bytes.
Strings(n) == UNION {[1..k -> Bytes] : k \in 0..n}

\* strings.Index(val, b) for a one-byte b: the 0-based index of the first b
\* in val, -1 if there is none.
Index(val, b) ==
    IF \E i \in 1..Len(val) : val[i] = b
    THEN (CHOOSE i \in 1..Len(val) :
             val[i] = b /\ \A j \in 1..(i - 1) : val[j] # b) - 1
    ELSE -1

\* val[lo:], lo counted from 0
SliceFrom(val, lo) == SubSeq(val, lo + 1, Len(val))

\* if n := strings.Index(val, "{"); n > 0 { val = val[n-1:] }
StripLeading(val) ==
    LET n == Index(val, "{") IN
    IF n > 0 THEN SliceFrom(val, n - 1) ELSE val

\* The command was not run.
NoEscalated == esc = [pc |-> "idle", dmiOut |-> <<>>, val |-> <<>>]

\* dmiCmd.Run() returned with its output in dmiOut
InitEscalated ==
    \E out \in Strings(MaxOut) : esc = [pc |-> "ran", dmiOut |-> out, val |-> <<>>]

\* val := dmiOut.String(), the strip, and val is handed to json.Unmarshal
Unmarshal ==
    /\ esc.pc = "ran"
    /\ esc' = [esc EXCEPT !.pc = "parsed", !.val = StripLeading(esc.dmiOut)]
    /\ UNCHANGED outsideEscalated

EscalatedNext == Unmarshal

----------------------------------------------------------------------------
\* The paged fetch helpers of the AWS database fetchers: getRDSProxies,
\* getRDSProxyCustomEndpoints, getRSSWorkgroups, getRSSVPCEndpoints (a
\* callback per page decides whether the SDK requests the next page) and
\* getMemoryDBClusters, getMemoryDBSubnetGroups (a loop over NextToken).

\* The maximum number of pages, small here.
maxAWSPages == 2

\* The most pages the service has of a listing.
MaxAvail == 4

ByCallback ==
    {"getRDSProxies", "getRDSProxyCustomEndpoints",
     "getRSSWorkgroups", "getRSSVPCEndpoints"}
ByToken == {"getMemoryDBClusters", "getMemoryDBSubnetGroups"}

\* No helper is running.
NoPaging == pg = [pc |-> "idle"]

\* A helper was called: the RDS helpers with the maxPages of their caller,
\* the others use maxAWSPages; the service has avail pages of the listing;
\* nothing is requested or collected yet.
InitPaging ==
    \E h \in ByCallback \cup ByToken, avail \in 1..MaxAvail, m \in 1..maxAWSPages :
        /\ h \notin {"getRDSProxies", "getRDSProxyCustomEndpoints"} => m = maxAWSPages
        /\ pg = [pc |-> "paging", helper |-> h, maxPages |-> m, avail |-> avail,
                 requests |-> 0, pageNum |-> 0, pages |-> <<>>, err |-> "nil"]

\* A callback helper: the SDK requests the next page and, unless the
\* request failed, calls the callback with it: the callback counts the page,
\* appends it and returns whether more pages are wanted (pageNum <=
\* maxPages, len(pages) <= maxAWSPages); the SDK goes on if so and if the
\* page was not the last. The helper returns what it collected and the
\* error.
PageCallback ==
    /\ pg.pc = "paging"
    /\ pg.helper \in ByCallback
    /\ \E ok \in BOOLEAN :
         LET page == pg.requests + 1
             lastPage == page = pg.avail
             more == pg.pageNum + 1 <= pg.maxPages
         IN  pg' = IF ok
                   THEN [pg EXCEPT !.requests = page,
                                   !.pageNum = @ + 1,
                                   !.pages = Append(@, page),
                                   !.pc = IF more /\ ~lastPage THEN "paging" ELSE "done"]
                   ELSE [pg EXCEPT !.requests = page,
                                   !.err = "request",
                                   !.pc = "done"]
    /\ UNCHANGED outsidePaging

\* A NextToken helper: one turn of for pageNum := 0; pageNum < maxAWSPages;
\* pageNum++: the request, the return of its error with nothing collected,
\* the append, the break when the output has no NextToken.
PageToken ==
    /\ pg.pc = "paging"
    /\ pg.helper \in ByToken
    /\ \E ok \in BOOLEAN :
         LET page == pg.requests + 1
             nextToken == page < pg.avail
         IN  pg' = IF ok
                   THEN [pg EXCEPT !.requests = page,
                                   !.pageNum = @ + 1,
                                   !.pages = Append(@, page),
                                   !.pc = IF nextToken /\ pg.pageNum + 1 < maxAWSPages
                                          THEN "paging" ELSE "done"]
                   ELSE [pg EXCEPT !.requests = page,
                                   !.pages = <<>>,
                                   !.err = "request",
                                   !.pc = "done"]
    /\ UNCHANGED outsidePaging

PagingNext == PageCallback \/ PageToken

----------------------------------------------------------------------------
\* rdsDBProxyPlugin.GetDatabases: the databases of the RDS Proxies of a
\* region and of their custom endpoints.

\* What DescribeDBProxyTargets gives for a proxy: an error, targets without
\* a port, a port.
TargetPorts == {"error", "none", "5432"}

\* The proxies getRDSProxies returns, in order, for each choice of their
\* RequireTLS, status and targets.
Proxy(name, tls, available, port) ==
    [name |-> name, requireTLS |-> tls, available |-> available, port |-> port]
ProxyLists ==
    {<<Proxy("p1", t1, a1, q1), Proxy("p2", t2, a2, q2)>> :
        t1 \in BOOLEAN, a1 \in BOOLEAN, q1 \in TargetPorts,
        t2 \in BOOLEAN, a2 \in BOOLEAN, q2 \in TargetPorts}

\* A custom endpoint of a listed proxy or of one that is not listed.
Endpoint(owner, available) ==
    [name |-> "e1", proxy |-> owner, available |-> available]
EndpointLists ==
    {<<Endpoint(o, a)>> : o \in {"p1", "p2", "p3"}, a \in BOOLEAN}

\* No fetcher is running.
NoGetDatabases == gd = [pc |-> "idle"]

\* GetDatabases is called: what the client and the conversions of package
\* services will answer.
InitGetDatabases ==
    \E ps \in ProxyLists, es \in EndpointLists,
       client \in BOOLEAN, proxiesErr \in BOOLEAN, endpointsErr \in BOOLEAN,
       tagsErr \in BOOLEAN, convProxy \in BOOLEAN, convEndpoint \in BOOLEAN :
        gd = [pc |-> "called", proxies |-> ps, endpoints |-> es,
              client |-> client, proxiesErr |-> proxiesErr,
              endpointsErr |-> endpointsErr, tagsErr |-> tagsErr,
              convProxy |-> convProxy, convEndpoint |-> convEndpoint,
              ret |-> [databases |-> <<>>, err |-> "nil"]]

\* getRDSProxyTargetPort returned no error: a target had a port.
PortFound(p) == p.port \notin {"error", "none"}

\* customEndpointsByProxyName[name]
CustomEndpoints(in, name) ==
    SelectSeq(in.endpoints, LAMBDA e : e.proxy = name)

\* The database of a proxy (endpoint "default") or of a custom endpoint.
Database(p, endpoint, tags) ==
    [proxy |-> p.name, endpoint |-> endpoint, port |-> p.port, tags |-> tags]

\* Faulty variant of ProxyDatabases: the status of the proxy is not looked at.
ProxyDatabasesAnyStatus(in, p) ==
    IF ~p.requireTLS THEN <<>>
    ELSE IF ~PortFound(p) THEN <<>>
    ELSE LET tags == IF in.tagsErr THEN "nil" ELSE "tags"
             custom == SelectSeq(CustomEndpoints(in, p.name),
                                 LAMBDA e : e.available /\ in.convEndpoint)
         IN  (IF in.convProxy THEN <<Database(p, "default", tags)>> ELSE <<>>)
             \o [i \in 1..Len(custom) |-> Database(p, custom[i].name, tags)]

\* One turn of the loop over rdsProxies: what it appends to databases.
ProxyDatabases(in, p) ==
    IF ~p.requireTLS THEN <<>>
    ELSE IF ~p.available THEN <<>>
    ELSE IF ~PortFound(p) THEN <<>>
    ELSE LET tags == IF in.tagsErr THEN "nil" ELSE "tags"
             custom == SelectSeq(CustomEndpoints(in, p.name),
                                 LAMBDA e : e.available /\ in.convEndpoint)
         IN  (IF in.convProxy THEN <<Database(p, "default", tags)>> ELSE <<>>)
             \o [i \in 1..Len(custom) |-> Database(p, custom[i].name, tags)]

\* GetDatabases(ctx, cfg)
GetDatabases ==
    /\ gd.pc = "called"
    /\ gd' = [gd EXCEPT
                 !.pc = "done",
                 !.ret = IF ~gd.client THEN [databases |-> <<>>, err |-> "client"]
                         ELSE IF gd.proxiesErr THEN [databases |-> <<>>, err |-> "proxies"]
                         ELSE [databases |-> ProxyDatabases(gd, gd.proxies[1])
                                               \o ProxyDatabases(gd, gd.proxies[2]),
                               err |-> "nil"]]
    /\ UNCHANGED outsideGetDatabases

GetDatabasesNext == GetDatabases

NoFetch == NoPaging /\ NoGetDatabases

----------------------------------------------------------------------------
\* InMemoryConfigWriter: files kept in a map, every method under m.mux.

\* Number of WriteFile and Remove calls.
MaxFSOps == 3

FileNames == {"a", "b"}
FileData == {"d1", "d2"}

\* m.files[name] when name is not a key of the map
NotFound == "not found"

\* What a method returned: to the call numbered at, counted in WriteFile
\* and Remove calls made before it.
Returned(op, name, at, data, e) ==
    [op |-> op, name |-> name, at |-> at, data |-> data, err |-> e]

\* No writer exists.
NoWriter == cw = [pc |-> "idle"]

\* NewInMemoryConfigWriter(): files: InMemoryFS{}
NewInMemoryConfigWriter ==
    cw = [pc |-> "new", files |-> [n \in FileNames |-> NotFound], ops |-> <<>>,
          ret |-> Returned("NewInMemoryConfigWriter", "", 0, NotFound, "nil")]

\* Faulty variant of WriteFile: an existing file is kept.
WriteFileOnce ==
    /\ cw.pc = "new"
    /\ Len(cw.ops) < MaxFSOps
    /\ \E name \in FileNames, data \in FileData :
         cw' = [cw EXCEPT
                  !.files[name] = IF @ = NotFound THEN data ELSE @,
                  !.ops = Append(@, [op |-> "WriteFile", name |-> name, data |-> data]),
                  !.ret = Returned("WriteFile", name, Len(cw.ops), data, "nil")]
    /\ UNCHANGED outsideWriter

\* m.files[name] = utils.NewInMemoryFile(name, perm, m.clock.Now(), data)
WriteFile ==
    /\ cw.pc = "new"
    /\ Len(cw.ops) < MaxFSOps
    /\ \E name \in FileNames, data \in FileData :
         cw' = [cw EXCEPT
                  !.files[name] = data,
                  !.ops = Append(@, [op |-> "WriteFile", name |-> name, data |-> data]),
                  !.ret = Returned("WriteFile", name, Len(cw.ops), data, "nil")]
    /\ UNCHANGED outsideWriter

\* delete(m.files, name)
Remove ==
    /\ cw.pc = "new"
    /\ Len(cw.ops) < MaxFSOps
    /\ \E name \in FileNames :
         cw' = [cw EXCEPT
                  !.files[name] = NotFound,
                  !.ops = Append(@, [op |-> "Remove", name |-> name, data |-> NotFound]),
                  !.ret = Returned("Remove", name, Len(cw.ops), NotFound, "nil")]
    /\ UNCHANGED outsideWriter

\* f, found := m.files[name]; fs.ErrNotExist if not found, else the file
\* (Stat) or f.Content() (ReadFile).
Lookup(op) ==
    /\ cw.pc = "new"
    /\ \E name \in FileNames :
         LET f == cw.files[name] IN
         cw' = [cw EXCEPT
                  !.ret = Returned(op, name, Len(cw.ops), f,
                                   IF f = NotFound THEN "fs.ErrNotExist" ELSE "nil")]
    /\ UNCHANGED outsideWriter

Stat == Lookup("Stat")

WriterReadFile == Lookup("ReadFile")

WriterNext == WriteFile \/ Remove \/ Stat \/ WriterReadFile


----------------------------------------------------------------------------
\* The device trust test environment E: New registers a closer for each
\* resource it creates, Close runs them.

\* Number of calls of Close by the user of the environment.
MaxCloses == 3

\* No environment exists.
NoEnv == env = [pc |-> "idle"]

\* New(opts...): e := &E{...}, the options applied, ok := false and the
\* deferred function set; nothing is registered or run.
InitEnv ==
    env = [pc |-> "listen", closers |-> <<>>, ok |-> FALSE, newRet |-> "",
           closes |-> 0, by |-> "", i |-> 0, errs |-> <<>>, ran |-> <<>>,
           closeRet |-> <<>>]

\* lis := bufconn.Listen(bufSize); e.closers = append(e.closers, lis.Close)
NewListen ==
    /\ env.pc = "listen"
    /\ env' = [env EXCEPT !.pc = "server", !.closers = Append(@, "lis.Close")]
    /\ UNCHANGED outsideEnv

\* s := grpc.NewServer(...) and the closer that stops it
NewServer ==
    /\ env.pc = "server"
    /\ env' = [env EXCEPT !.pc = "dial", !.closers = Append(@, "s.Stop")]
    /\ UNCHANGED outsideEnv

\* e.Close() begins, called by whom: var errs []error; i := len(e.closers) - 1
CloseBegins(e, by) ==
    [e EXCEPT !.pc = "closing", !.by = by, !.closes = @ + 1,
              !.i = Len(e.closers), !.errs = <<>>, !.closeRet = <<>>]

\* cc, err := grpc.DialContext(...): on an error New returns it, and the
\* deferred function, ok being false, calls e.Close() first; otherwise
\* cc.Close is registered, ok = true and New returns e.
NewDial ==
    /\ env.pc = "dial"
    /\ \E dialed \in BOOLEAN :
         env' = IF dialed
                THEN [env EXCEPT !.pc = "returned", !.ok = TRUE, !.newRet = "nil",
                                 !.closers = Append(@, "cc.Close")]
                ELSE CloseBegins(env, "New")
    /\ UNCHANGED outsideEnv

\* The user of the environment calls e.Close().
Close ==
    /\ env.pc = "returned"
    /\ env.newRet = "nil"
    /\ env.closes < MaxCloses
    /\ env' = CloseBegins(env, "user")
    /\ UNCHANGED outsideEnv

\* Whether a closer can return an error: the one that stops the server
\* returns nil.
CanFail(closer) == closer # "s.Stop"

\* Faulty variant of CloseStep: the loop ends at the first error.
CloseStepUntilError ==
    /\ env.pc = "closing"
    /\ env.i >= 1
    /\ \E failed \in {f \in BOOLEAN : f => CanFail(env.closers[env.i])} :
         env' = [env EXCEPT
                   !.ran = Append(@, [closer |-> env.closers[env.i],
                                      call |-> env.closes, failed |-> failed]),
                   !.errs = IF failed THEN Append(@, env.closers[env.i]) ELSE @,
                   !.i = IF failed THEN 0 ELSE @ - 1]
    /\ UNCHANGED outsideEnv

\* One turn of for i := len(e.closers) - 1; i >= 0; i--: the closer is run
\* and its error, if any, appended to errs.
CloseStep ==
    /\ env.pc = "closing"
    /\ env.i >= 1
    /\ \E failed \in {f \in BOOLEAN : f => CanFail(env.closers[env.i])} :
         env' = [env EXCEPT
                   !.ran = Append(@, [closer |-> env.closers[env.i],
                                      call |-> env.closes, failed |-> failed]),
                   !.errs = IF failed THEN Append(@, env.closers[env.i]) ELSE @,
                   !.i = @ - 1]
    /\ UNCHANGED outsideEnv

\* return trace.NewAggregate(errs...); when the deferred function of New
\* called, New now returns its error.
CloseReturn ==
    /\ env.pc = "closing"
    /\ env.i = 0
    /\ env' = [env EXCEPT !.pc = "returned", !.closeRet = env.errs,
                          !.newRet = IF env.by = "New" THEN "err" ELSE @]
    /\ UNCHANGED outsideEnv

EnvNext ==
    \/ NewListen
    \/ NewServer
    \/ NewDial
    \/ Close
    \/ CloseStep
    \/ CloseReturn

NoHelpers == NoWriter /\ NoEnv

\* No device data is being collected.
NoDevice == InitDMI /\ NoCollect /\ NoEscalated

----------------------------------------------------------------------------
\* The specifications

Init == InitProvider /\ NoStatic /\ NoConfigure /\ NoDevice /\ NoFetch /\ NoHelpers

Spec == Init /\ [][Next]_vars

\* The steps a Reload takes by itself once identityfile.ReadFile has
\* returned, but for the request of the write lock.
ReloadStep(r) ==
    \/ Parse(r) \/ Acquire(r)
    \/ SetRootCAs(r) \/ SetCert(r) \/ SetSSHCert(r) \/ SetSSHKey(r) \/ SetKnownHosts(r)
    \/ Unlock(r) \/ Return(r)

\* A callback's request of the read lock.
RLockStep(a) ==
    \/ VerifyConnectionRLock(a) \/ GetClientCertificateRLock(a)
    \/ GetHostCheckersRLock(a) \/ PublicKeysRLock(a)

\* The steps a callback takes by itself once it holds the read lock.
CallbackStep(a) ==
    \/ VerifyConnectionOpts(a) \/ VerifyConnectionVerify(a) \/ VerifyConnectionReturn(a)
    \/ GetClientCertificateRead(a) \/ GetClientCertificateReturn(a)
    \/ GetHostCheckersRead(a) \/ GetHostCheckersReturn(a)
    \/ PublicKeysCert(a) \/ PublicKeysKey(a) \/ PublicKeysSigner(a)
    \/ PublicKeysReturn(a)

\* The goroutines are scheduled fairly: a step that stays possible is taken.
\* sync.Mutex hands a starving waiter the lock, and RWMutex.Unlock admits the
\* readers that waited before the next writer: a lock request that is
\* possible again and again is granted. Nothing is assumed of the loader,
\* nor of the callers starting Reloads and connection attempts.
\* The provider in use: the constructor has returned it, loaded from the
\* first version of the file, and both configs have been built from it.
InitInUse ==
    /\ store = 1
    /\ nCalls = 1 /\ lockOrder = <<1>> /\ returned = {Material(1, 1)}
    /\ tlsCert = Material(1, 1) /\ tlsRootCAs = Material(1, 1)
    /\ sshCert = Material(1, 1) /\ sshKey = Material(1, 1)
    /\ sshKnownHosts = Material(1, 1)
    /\ mu = [w |-> 0, held |-> FALSE, readers |-> {}]
    /\ newRet = NewResult("nil")
    /\ rpc = [r \in Reloaders |-> "idle"]
    /\ id = [r \in Reloaders |-> NoIdentity]
    /\ err = [r \in Reloaders |-> "nil"]
    /\ callOf = [r \in Reloaders |-> 0]
    /\ inNew = [r \in Reloaders |-> FALSE]
    /\ wrote = [r \in Reloaders |-> {}]
    /\ tlsCfg = [DynamicTLSConfig EXCEPT !.at = 1]
    /\ sshCfg = [DynamicSSHConfig EXCEPT !.at = 1]
    /\ dialRet = [dialer |-> "nil", err |-> "notcalled"]
    /\ apc = [a \in Attempts |-> "idle"]
    /\ obs = [a \in Attempts |-> NoObs]
    /\ seen = [a \in Attempts |-> {}]
    /\ peer = [a \in Attempts |-> NoPeer]
    /\ cbErr = [a \in Attempts |-> "nil"]
    /\ NoStatic /\ NoConfigure /\ NoDevice /\ NoFetch /\ NoHelpers

\* The Reloads and the connection attempts of a provider in use, the file
\* staying as it is (what it holds plays no part in the locking).
NextInUse ==
    \/ \E r \in Reloaders : Reload(r)
    \/ \E r \in Reloaders : ReadFile(r)
    \/ \E r \in Reloaders : Lock(r)
    \/ \E r \in Reloaders : ReloadStep(r)
    \/ \E a \in Attempts : Handshake(a)
    \/ \E a \in Attempts : Dial(a)
    \/ \E a \in Attempts : RLockStep(a)
    \/ \E a \in Attempts : CallbackStep(a)
    \/ \E a \in Attempts : AttemptEnd(a)

FairSpec ==
    /\ InitInUse /\ [][NextInUse]_vars
    /\ \A r \in Reloaders : WF_vars(ReloadStep(r)) /\ SF_vars(Lock(r))
    /\ \A a \in Attempts : WF_vars(CallbackStep(a)) /\ SF_vars(RLockStep(a))

StaticInit == InitProvider /\ InitStatic /\ NoConfigure /\ NoDevice /\ NoFetch /\ NoHelpers

StaticSpec == StaticInit /\ [][StaticNext]_vars

ConfigureInit == InitProvider /\ NoStatic /\ InitConfigure /\ NoDevice /\ NoFetch /\ NoHelpers

ConfigureSpec == ConfigureInit /\ [][ConfigureNext]_vars

DMIInit == InitProvider /\ NoStatic /\ NoConfigure /\ NoDevice /\ NoFetch /\ NoHelpers

DMISpec == DMIInit /\ [][DMINext]_vars

CollectInit == InitProvider /\ NoStatic /\ NoConfigure /\ NoDevice /\ NoFetch /\ NoHelpers

EscalatedInit == InitProvider /\ NoStatic /\ NoConfigure /\ InitDMI /\ NoCollect /\ InitEscalated /\ NoFetch /\ NoHelpers

EscalatedSpec == EscalatedInit /\ [][EscalatedNext]_vars

PagingInit ==
    /\ InitProvider /\ NoStatic /\ NoConfigure /\ NoDevice
    /\ InitPaging /\ NoGetDatabases /\ NoHelpers

PagingSpec == PagingInit /\ [][PagingNext]_vars

GetDatabasesInit ==
    /\ InitProvider /\ NoStatic /\ NoConfigure /\ NoDevice
    /\ NoPaging /\ InitGetDatabases /\ NoHelpers

GetDatabasesSpec == GetDatabasesInit /\ [][GetDatabasesNext]_vars

WriterInit ==
    /\ InitProvider /\ NoStatic /\ NoConfigure /\ NoDevice /\ NoFetch
    /\ NewInMemoryConfigWriter /\ NoEnv

WriterSpec == WriterInit /\ [][WriterNext]_vars

EnvInit ==
    /\ InitProvider /\ NoStatic /\ NoConfigure /\ NoDevice /\ NoFetch
    /\ NoWriter /\ InitEnv

EnvSpec == EnvInit /\ [][EnvNext]_vars

\* The Go scheduler runs a goroutine that can take a step; nothing is
\* assumed of the caller, of sudo or of the file system.
CollectSpec == CollectInit /\ [][CollectNext]_vars /\ WF_vars(Goroutine)

----------------------------------------------------------------------------
\* Vocabulary of the properties

\* The stages of Reload between the acquisition of the write lock and its release.
InstallStages == {"setRootCAs", "setCert", "setSSHCert", "setSSHKey",
                  "setKnownHosts", "unlock"}

\* The Reload calls that installed the five fields.
FieldCalls == {tlsCert.call, tlsRootCAs.call, sshCert.call, sshKey.call,
               sshKnownHosts.call}

\* The five fields were all installed by call c.
AllFrom(c) == FieldCalls = {c}

\* The material the callback that attempt a is running has read so far.
ReadSoFar(a) ==
    CASE apc[a] \in {"vcVerify", "vcReturn"} -> {obs[a].roots}
      [] apc[a] = "gcReturn" -> {obs[a].cert}
      [] apc[a] = "hcReturn" -> {obs[a].hosts}
      [] apc[a] = "pkKey" -> {obs[a].sshCert}
      [] apc[a] \in {"pkSigner", "pkReturn"} -> {obs[a].sshCert, obs[a].sshKey}
      [] OTHER -> {}

----------------------------------------------------------------------------
\* C1: a Reload that fails, at whichever step, has assigned none of the five
\* fields, and no step it takes changes them: they keep the values they had.
C1_FailedReloadKeepsState ==
    /\ [](\A r \in Reloaders : (rpc[r] = "ret" /\ err[r] # "nil") => wrote[r] = {})
    /\ [][\A r \in Reloaders :
            ((rpc[r] \in {"read", "parse"} \/ (rpc[r] = "ret" /\ err[r] # "nil"))
             /\ rpc'[r] # rpc[r]) => fields' = fields]_vars

\* A Reload of a working provider has failed at its last parse step.
C1_Witness ==
    \E r \in Reloaders :
        /\ rpc[r] = "ret" /\ err[r] = "knownhosts" /\ ~inNew[r]
        /\ AllFrom(1)

\* C2: whenever a reader holds the read lock, the five fields all come from
\* one Reload call, which has finished installing them.
C2_ReadersSeeOneGeneration ==
    mu.readers # {} => (AllFrom(LastLocked) /\ LastLocked # 0 /\ ~mu.held)

\* A reader holds the lock on material of a later Reload while the next
\* Reload waits for it.
C2_Witness ==
    /\ mu.readers # {} /\ mu.w # 0
    /\ AllFrom(2)

\* C3 as stated: a finished connection attempt has read material of one
\* version of the identity file through all of its callbacks.
C3_AttemptSeesOneGeneration ==
    \A a \in Attempts :
        apc[a] = "done" =>
            /\ (obs[a].roots # Nil /\ obs[a].cert # Nil)
                   => obs[a].roots.ver = obs[a].cert.ver
            /\ (obs[a].hosts # Nil /\ obs[a].sshCert # Nil)
                   => obs[a].hosts.ver = obs[a].sshCert.ver

\* C3, amended: each callback invocation reads material of one Reload call,
\* and a later callback of the same attempt never reads material installed
\* before the material an earlier callback of the attempt read.
C3_CallbackSeesOneGeneration ==
    \A a \in Attempts :
        /\ (obs[a].sshCert # Nil /\ obs[a].sshKey # Nil)
               => obs[a].sshCert = obs[a].sshKey
        /\ obs[a].cert # Nil => Pos(obs[a].cert.call) >= Pos(obs[a].roots.call)
        /\ obs[a].sshCert # Nil
               => Pos(obs[a].sshCert.call) >= Pos(obs[a].hosts.call)

\* An SSH attempt whose two callbacks read different generations, the signer
\* material being of one generation.
C3_Witness ==
    \E a \in Attempts :
        /\ apc[a] = "done" /\ cbErr[a] = "nil"
        /\ obs[a].sshCert = obs[a].sshKey
        /\ obs[a].sshCert.ver # obs[a].hosts.ver
        /\ obs[a].hosts # Nil /\ obs[a].sshCert # Nil

\* C4: what a callback of an issued config reads is the material of the
\* latest Reload to have installed, whenever the config was built.
C4_ConfigYieldsLatest ==
    \A a \in Attempts : \A m \in ReadSoFar(a) : m.call = LastLocked /\ m # Nil

\* A TLS config built before two successive Reloads yields the second one's
\* certificate to a callback invoked after that Reload returned.
C4_Witness ==
    \E a \in Attempts :
        /\ apc[a] = "gcReturn"
        /\ obs[a].cert \in seen[a]
        /\ tlsCfg.at # 0
        /\ Pos(obs[a].cert.call) = Pos(tlsCfg.at) + 2

\* C5: the constructor returns a provider exactly when it returns no error,
\* a returned provider has its five fields populated, and until a later
\* Reload installs they are those of the constructor's load.
C5_ConstructorAllOrNothing ==
    /\ newRet.state = "returned" => (newRet.d <=> newRet.err = "nil")
    /\ (newRet.state = "returned" /\ newRet.d) =>
           /\ 0 \notin FieldCalls
           /\ Len(lockOrder) >= 1
           /\ Len(lockOrder) = 1 => AllFrom(lockOrder[1])

\* A constructor call failed, a second one returned a provider loaded by it.
C5_Witness ==
    /\ newRet.state = "returned" /\ newRet.d
    /\ lockOrder = <<2>> /\ AllFrom(2)
    /\ \A r \in Reloaders : rpc[r] = "idle"

\* C6 as stated: a callback that begins after a Reload returned success reads
\* the material that call read or material read from the identity file later,
\* never material of an earlier version of the file.
C6_ReadOrder ==
    \A a \in Attempts : \A m \in ReadSoFar(a) : \A n \in seen[a] : m.ver >= n.ver

\* C6, amended: a callback that begins after a Reload returned success reads
\* material of that call or of a call that acquired the write lock after it.
C6_LockOrder ==
    \A a \in Attempts : \A m \in ReadSoFar(a) : \A n \in seen[a] :
        Pos(m.call) >= Pos(n.call) /\ Pos(n.call) >= 1

\* Two Reloads overlapped: a callback begun after both returned reads the
\* material of the one that locked last, which read an earlier version of
\* the file than the other.
C6_Witness ==
    \E a \in Attempts : \E m \in ReadSoFar(a) : \E n \in seen[a] :
        /\ m.ver < n.ver /\ Pos(m.call) > Pos(n.call)
        /\ m \in seen[a]

\* C7: at most one Reload is between acquiring and releasing the write lock,
\* and whenever none is, the five fields all come from the call that locked last.
C7_ReloadsSerialized ==
    /\ Cardinality({r \in Reloaders : rpc[r] \in InstallStages}) <= 1
    /\ (\A r \in Reloaders : rpc[r] \notin InstallStages) => AllFrom(LastLocked)

\* Two overlapping Reloads have both returned.
C7_Witness ==
    /\ \A r \in Reloaders : rpc[r] = "idle"
    /\ {n.call : n \in returned} = {1, 2, 3}
    /\ lockOrder = <<1, 3, 2>>
    /\ AllFrom(2)

\* C8: a Reload that is reading or parsing, or has failed, neither holds nor
\* has requested the lock, and readers can acquire the read lock whenever no
\* Reload is past its parsing.
C8_LoadOutsideLock ==
    /\ \A r \in Reloaders :
          rpc[r] \in {"read", "parse", "lock"} \/ (rpc[r] = "ret" /\ err[r] # "nil")
              => (mu.w # r /\ wrote[r] = {}
                  /\ \A i \in 1..Len(lockOrder) : lockOrder[i] # callOf[r] \/ callOf[r] = 0)
    /\ (\A r \in Reloaders : rpc[r] \in {"idle", "read", "parse", "lock", "ret"})
           => CanRLock

\* A callback holds the read lock while a Reload of the provider is parsing.
C8_Witness ==
    \E r \in Reloaders : \E a \in Attempts :
        /\ rpc[r] = "parse" /\ ~inNew[r]
        /\ a \in mu.readers

\* C9 as stated: no callback holds the read lock while it verifies the chain
\* or constructs the signer.
C9_NoCryptoUnderLock ==
    \A a \in Attempts : apc[a] \in {"vcVerify", "pkSigner"} => a \notin mu.readers

\* C10: a step changes one of the five fields only if it is an assignment of
\* a Reload that holds the write lock after loading and parsing succeeded.
C10_OnlyReloadWrites ==
    [][fields' # fields =>
          \E r \in Reloaders :
              /\ rpc[r] \in InstallStages /\ rpc'[r] # rpc[r]
              /\ mu.w = r /\ mu.held /\ err[r] = "nil"]_vars

\* Every builder has been called and a callback has failed, the provider's
\* material being in place.
C10_Witness ==
    /\ tlsCfg.built /\ sshCfg.built /\ dialRet.err = "NotImplemented"
    /\ \E a \in Attempts : apc[a] = "done" /\ cbErr[a] = "verify"
    /\ AllFrom(LastLocked) /\ LastLocked # 0

\* C11: VerifyConnection accepts the presented chain exactly when its leaf is
\* signed by a root of the pool the provider holds during the call, directly
\* or through a certificate presented after the leaf, and is for the sentinel
\* name; the address dialed plays no part.
C11_VerifiesLeafAgainstCurrentRoots ==
    \A a \in Attempts :
        apc[a] = "vcReturn" =>
            LET leaf == peer[a].chain[1]
                others == {peer[a].chain[i] : i \in 2..Len(peer[a].chain)}
                trusted == {RootCA(tlsRootCAs.ver)} \ {RootCA(0)}
                signers == trusted \cup {i.subject : i \in {x \in others : x.issuer \in trusted}}
            IN  cbErr[a] = "nil" <=> (leaf.issuer \in signers /\ APIDomain \in leaf.names)

\* A chain with an intermediate is accepted against the roots a Reload
\* installed, at an address the leaf is not for.
C11_Witness ==
    \E a \in Attempts :
        /\ apc[a] = "vcReturn" /\ cbErr[a] = "nil"
        /\ Len(peer[a].chain) = 2
        /\ peer[a].addr \notin peer[a].chain[1].names
        /\ tlsRootCAs.ver = 2 /\ Len(lockOrder) = 2

\* C12: each invocation of the PublicKeysCallback builds its signer from the
\* certificate and key the provider holds during that invocation, and returns
\* an error exactly when they make no signer; no step of the callback changes
\* the five fields, and once it has returned, with or without an error, it
\* holds no lock, so that Reload and later attempts are not held up.
C12_SignerPerInvocation ==
    /\ [](\A a \in Attempts :
            /\ apc[a] = "pkReturn" =>
                   /\ obs[a].sshCert = sshCert /\ obs[a].sshKey = sshKey
                   /\ cbErr[a] = "nil" <=>
                          (sshCert.call = sshKey.call /\ sshCert.ver \notin ForeignCert)
            /\ apc[a] \in {"done", "idle"} => a \notin mu.readers)
    /\ [][\A a \in Attempts :
            (apc[a] \in {"pkRLock", "pkCert", "pkKey", "pkSigner", "pkReturn"}
             /\ apc'[a] # apc[a]) => fields' = fields]_vars

\* An attempt was refused a signer, the material it read being still in
\* place, and a Reload called since is installing new material.
C12_Witness ==
    \E a \in Attempts : \E r \in Reloaders :
        /\ apc[a] = "done" /\ cbErr[a] = "signer"
        /\ obs[a].sshCert.call = 1 /\ sshKey.call = 1
        /\ rpc[r] = "setSSHCert" /\ callOf[r] = 2 /\ id[r] = 2

\* C13: whenever TLSConfig has been called it returned no error, and the
\* config it returned has no static Certificates or RootCAs, has the built-in
\* verification switched off and VerifyConnection and GetClientCertificate
\* reading the provider, lists "h2" and names the sentinel as ServerName.
C13_DynamicConfig ==
    tlsCfg.built =>
        /\ tlsCfg.err = "nil"
        /\ tlsCfg.Certificates = Nil /\ tlsCfg.RootCAs = Nil
        /\ tlsCfg.InsecureSkipVerify
        /\ tlsCfg.roots = OverProvider /\ tlsCfg.cert = OverProvider
        /\ \E i \in 1..Len(tlsCfg.NextProtos) : tlsCfg.NextProtos[i] = "h2"
        /\ tlsCfg.ServerName = "teleport.cluster.local"

\* TLSConfig returned its config while a Reload, holding the write lock, had
\* replaced some of the fields and not yet the others.
C13_Witness ==
    /\ tlsCfg.built /\ tlsCfg.at = 2
    /\ \E r \in Reloaders : rpc[r] = "setSSHCert" /\ callOf[r] = 2
    /\ \A a \in Attempts : apc[a] = "idle"
    /\ tlsCert.call # sshCert.call

\* C14 as stated: a loader failure for want of the material and one for
\* material that does not decode never reach the caller as errors of the
\* same kind.
C14_KindTellsCause == kinds["unavailable"] \cap kinds["malformed"] = {}

\* C15: a Reload call invokes identityfile.ReadFile once, as its first step,
\* and never again; a failure of the read or of a parse step takes it
\* straight to its return with that error; and it returns nil exactly when
\* it has assigned all five fields.
C15_LoadOnceNoRetry ==
    /\ [](\A r \in Reloaders :
            /\ rpc[r] \notin {"idle", "read"} => callOf[r] # 0
            /\ rpc[r] = "ret" =>
                   (err[r] = "nil" <=> wrote[r] = {"tlsRootCAs", "tlsCert", "sshCert",
                                                  "sshKey", "sshKnownHosts"}))
    /\ [][\A r \in Reloaders :
            /\ callOf'[r] \notin {0, callOf[r]} =>
                   /\ rpc[r] = "read" /\ callOf[r] = 0
                   /\ rpc'[r] \in {"parse", "ret"}
                   /\ rpc'[r] = "ret" <=> err'[r] # "nil"
            /\ (rpc[r] = "parse" /\ rpc'[r] # "parse") =>
                   /\ rpc'[r] \in {"lock", "ret"}
                   /\ rpc'[r] = "ret" <=> err'[r] # "nil"
            /\ (rpc[r] # "read" /\ rpc'[r] = "read") => rpc[r] = "idle"]_vars

\* The third call of Reload failed to read the file and is returning the
\* error, the second having installed.
C15_Witness ==
    \E r \in Reloaders :
        /\ rpc[r] = "ret" /\ err[r] = "read" /\ callOf[r] = 3
        /\ lockOrder = <<1, 2>> /\ AllFrom(2)

\* C16: the three constructors return an object that has loaded nothing,
\* without invoking the loader and without an error; a TLSConfig or
\* SSHClientConfig call on an object that holds no material invokes the
\* loader once, and keeps what it returned only if it succeeded; a call on
\* an object that holds material does not invoke it, and the material an
\* object holds never changes.
C16_LazyLoadOnce ==
    /\ [](sret.op \in {"LoadIdentityFile", "LoadIdentityFileFromString", "LoadProfile"}
            => (loads = 0 /\ sret.err = "nil" /\ creds.loaded = NotLoaded))
    /\ [][/\ creds.loaded # NotLoaded => (creds'.loaded = creds.loaded /\ loads' = loads)
          /\ (sret'.n = sret.n + 1 /\ sret'.op \in {"TLSConfig", "SSHClientConfig"}
              /\ creds.loaded = NotLoaded) =>
                 /\ loads' = loads + 1
                 /\ IF backing.state \in {"missing", "malformed"}
                    THEN creds'.loaded = NotLoaded /\ sret'.err # "nil"
                    ELSE creds'.loaded = backing
          /\ sret'.n = sret.n => loads' = loads]_vars

\* A profile source failed to load, loaded at its second call, and served
\* its third call from what it holds.
C16_Witness ==
    /\ creds.kind = "profile" /\ creds.loaded.state = "ok"
    /\ sret.n = 3 /\ sret.op = "TLSConfig" /\ sret.err = "nil"
    /\ loads = 2 /\ "unavailable" \in DOMAIN kinds /\ kinds["unavailable"] # {}

\* C17: once configureTLS has returned, its result is another config than
\* the one given, which reads as it did before the call; the result's
\* protocols are those given, in their order and each once, with "h2" among
\* them once; its ServerName is the one given, or the sentinel if none was;
\* and if certificates were given, the result has none and its
\* GetClientCertificate returns the first of those given.
C17_ConfigureTLS ==
    cOut # NoTLSConfig =>
        LET given == Elements(cIn.NextProtos)
            with == Append(given, "h2")
            protos == Elements(cOut.NextProtos)
            First(x) == CHOOSE i \in 1..Len(with) :
                            with[i] = x /\ \A j \in 1..(i - 1) : with[j] # x
        IN  /\ cOut.ptr # cArg.ptr
            /\ Elements(cArg.NextProtos) = given
            /\ [cArg EXCEPT !.NextProtos = cIn.NextProtos] = cIn
            /\ {protos[i] : i \in 1..Len(protos)} = {with[i] : i \in 1..Len(with)}
            /\ \A i, j \in 1..Len(protos) :
                   i < j => (protos[i] # protos[j] /\ First(protos[i]) < First(protos[j]))
            /\ Cardinality({i \in 1..Len(protos) : protos[i] = "h2"}) = 1
            /\ cOut.ServerName = IF cIn.ServerName # "" THEN cIn.ServerName
                                 ELSE "teleport.cluster.local"
            /\ Len(cIn.Certificates) > 0 =>
                   /\ cOut.Certificates = <<>>
                   /\ cOut.GetClientCertificate.kind = "closure"
                   /\ cGot \in {0, cIn.Certificates[1]}

\* A config with two certificates, no ServerName and a protocol list with
\* spare capacity was given: the call wrote "h2" into the spare element of
\* the array, and the result's callback returned the first certificate.
C17_Witness ==
    /\ cOut # NoTLSConfig /\ cGot = 2
    /\ cIn.Certificates = <<2, 1>> /\ cIn.ServerName = ""
    /\ cIn.NextProtos = [arr |-> <<"http/1.1", "http/1.1">>, len |-> 1]
    /\ cArg.NextProtos.arr = <<"http/1.1", "h2">>

\* C18: the certificate and the key the PublicKeysCallback hands to
\* sshutils.SSHSigner were assigned by the same Reload call, one that held
\* the write lock, and while the callback reads them the fields hold a
\* certificate and a key of one call.
C18_SignerOfOneReload ==
    \A a \in Attempts :
        /\ obs[a].sshKey # Nil =>
               /\ obs[a].sshCert.call = obs[a].sshKey.call
               /\ Pos(obs[a].sshKey.call) >= 1
        /\ apc[a] \in {"pkCert", "pkKey", "pkSigner", "pkReturn"} =>
               sshCert.call = sshKey.call

\* A signer was built from the material of the second Reload while the
\* third waits for the callback to release the lock.
C18_Witness ==
    \E a \in Attempts : \E r \in Reloaders :
        /\ apc[a] = "pkReturn" /\ cbErr[a] = "nil"
        /\ obs[a].sshCert.call = 2 /\ obs[a].sshKey.call = 2
        /\ rpc[r] = "acquire" /\ mu.w = r /\ callOf[r] = 3

\* C19: under fair scheduling a callback that has started returns, having
\* released the read lock, and a Reload whose read of the file has returned
\* returns, having released the write lock if it took it; whoever has
\* returned holds no lock.
C19_NoDeadlock ==
    /\ \A a \in Attempts : (apc[a] \notin {"idle", "done"}) ~> (apc[a] = "done")
    /\ \A r \in Reloaders : (rpc[r] \notin {"idle", "read"}) ~> (rpc[r] = "idle")
    /\ [](/\ \A a \in Attempts : apc[a] \in {"idle", "done"} => a \notin mu.readers
          /\ \A r \in Reloaders : rpc[r] \in {"idle", "read", "parse", "ret"} => mu.w # r)

\* A callback waits for the write lock to be released while two Reloads
\* contend for it, one holding it.
C19_Witness ==
    \E a \in Attempts : \E r, q \in Reloaders :
        /\ apc[a] = "pkRLock"
        /\ rpc[r] = "setCert" /\ mu.w = r
        /\ rpc[q] = "lock"

\* C20: the escalated read runs only after sysfs failed with a permission
\* error, in mode CollectedDataAlwaysEscalate or in mode
\* CollectedDataMaybeEscalate after the cached read failed; it never runs in
\* mode CollectedDataNeverEscalate; the cache is never read in mode
\* CollectedDataAlwaysEscalate; after sysfs succeeded or failed otherwise,
\* neither the cache nor the escalated read is touched.
C20_EscalateOnlyAsModeAllows ==
    LET Called(f) == \E i \in 1..Len(dmi.calls) : dmi.calls[i] = f IN
    /\ Called("readDMIInfoEscalated") =>
           /\ dmi.sysfs = "permission"
           /\ \/ dmi.mode = "CollectedDataAlwaysEscalate"
              \/ dmi.mode = "CollectedDataMaybeEscalate" /\ dmi.cached = "miss"
    /\ dmi.mode = "CollectedDataNeverEscalate" => ~Called("readDMIInfoEscalated")
    /\ dmi.mode = "CollectedDataAlwaysEscalate" => ~Called("readDMIInfoCached")
    /\ dmi.sysfs \in {"ok", "other"} =>
           dmi.pc = "done" /\ dmi.calls = <<"dmiInfoFromSysfs">>

\* In mode CollectedDataMaybeEscalate, with a cache an earlier call wrote,
\* the cached read failed and the escalated read ran.
C20_Witness ==
    /\ dmi.mode = "CollectedDataMaybeEscalate" /\ dmi.pc = "done" /\ dmi.n = 2
    /\ dmi.calls = <<"dmiInfoFromSysfs", "readDMIInfoCached",
                     "readDMIInfoEscalated", "saveDMIInfoToCache">>
    /\ dmi.cache = "escalated"

\* C21: readDMIInfoAccordingToMode returns an error only when the escalated
\* read ran and failed, and then no info; otherwise it returns a nil error
\* with the escalated info after an escalated success, the cached info after
\* a cache hit, all of the sysfs info after a sysfs success, and what sysfs
\* gave in every other case.
C21_ErrorOnlyFromEscalatedRead ==
    dmi.pc = "done" =>
        /\ dmi.ret.err # "nil" <=> dmi.escalated = "failed"
        /\ dmi.ret.dmiInfo =
               CASE dmi.escalated = "failed" -> "nil"
                 [] dmi.escalated = "ok" -> "escalated"
                 [] dmi.cached = "hit" -> dmi.cache
                 [] dmi.sysfs = "ok" -> "sysfs"
                 [] OTHER -> "partial"

\* The escalated read failed after a cache miss and the call returned its
\* error.
C21_Witness ==
    /\ dmi.pc = "done" /\ dmi.mode = "CollectedDataMaybeEscalate"
    /\ dmi.cached = "miss" /\ dmi.escalated = "failed"
    /\ dmi.ret = [dmiInfo |-> "nil", err |-> "escalated"]

\* C22: within a call, dmi.json changes and saveDMIInfoToCache is called
\* only in the step right after a successful escalated read, with the info
\* that read returned, once; the step leaves in dmi.json that info, or on a
\* failure what was there or a truncated file, and leaves the info and the
\* nil error to be returned as they were.
C22_CacheWrittenAfterEscalatedRead ==
    [][(dmi'.n = dmi.n /\ (dmi'.saved # dmi.saved \/ dmi'.cache # dmi.cache)) =>
          /\ dmi.escalated = "ok"
          /\ dmi.calls[Len(dmi.calls)] = "readDMIInfoEscalated"
          /\ dmi.saved = <<>> /\ dmi'.saved = <<"escalated">>
          /\ dmi'.cache \in SaveOutcomes("escalated", dmi.cache)
          /\ dmi'.pc = "done"
          /\ dmi'.ret = [dmiInfo |-> "escalated", err |-> "nil"]]_vars
    /\ [][dmi'.n # dmi.n => dmi'.cache = dmi.cache]_vars

\* In a second call the save failed and left dmi.json truncated, and the call
\* returned the escalated info.
C22_Witness ==
    /\ dmi.pc = "done" /\ dmi.n = 2 /\ dmi.saved = <<"escalated">>
    /\ dmi.cache = "truncated"
    /\ dmi.ret = [dmiInfo |-> "escalated", err |-> "nil"]

\* C23: the goroutine of collectDeviceData always completes, whatever path
\* collectDeviceData returns by and even if it never receives; its one send
\* fits the buffer; a parse failure sends an empty OS release, and the
\* collection fails only with the error of readDMIInfoAccordingToMode or of
\* user.Current.
C23_GoroutineCompletes ==
    /\ (cdd.go # "none") ~> (cdd.go = "done")
    /\ [](Len(cdd.osReleaseC) <= ChanCap)
    /\ [](cdd.go \in {"send", "done"} => cdd.osRelease \in {"parsed", "empty"})
    /\ [](cdd.pc = "done" =>
            \/ cdd.ret.err \in {"escalated", "user"} /\ cdd.ret.data = "nil"
            \/ /\ cdd.ret.err = "nil"
               /\ cdd.ret.data = [dmiInfo |-> cdd.dmiInfo, osRelease |-> cdd.osRelease])

\* collectDeviceData returned the error of the escalated read without
\* receiving, and the goroutine, whose parse had failed, has ended with its
\* empty OS release left in the channel.
C23_Witness ==
    /\ cdd.pc = "done" /\ cdd.ret.err = "escalated"
    /\ cdd.go = "done" /\ cdd.osReleaseC = <<"empty">>

\* C24: whenever the output of the sudo command contains a "{", the text
\* handed to the JSON parser begins with the first "{" of the output.
C24_ParsedFromFirstBrace ==
    (esc.pc = "parsed" /\ Index(esc.dmiOut, "{") >= 0) =>
        /\ esc.val = SliceFrom(esc.dmiOut, Index(esc.dmiOut, "{"))
        /\ Head(esc.val) = "{"

\* C25: the callback helpers never collect more than their maximum number
\* of pages (maxPages for the RDS helpers, maxAWSPages for the Redshift
\* Serverless helpers); the MemoryDB helpers issue at most maxAWSPages
\* requests and none after a response without a next token.
C25_AtMostMaxPages ==
    pg.pc # "idle" =>
        /\ pg.helper \in ByCallback => Len(pg.pages) <= pg.maxPages
        /\ pg.helper \in ByToken =>
               pg.requests <= maxAWSPages /\ pg.requests <= pg.avail

\* C26: every database GetDatabases returns is of a listed proxy that
\* requires TLS, is available and has a target port; that of a custom
\* endpoint also needs the endpoint to be of that proxy and available; a
\* failure to list the proxies fails GetDatabases, a failure to list the
\* custom endpoints or the tags does not.
C26_DatabasesOfUsableProxies ==
    gd.pc = "done" =>
        /\ \A i \in 1..Len(gd.ret.databases) :
              LET db == gd.ret.databases[i] IN
              /\ \E j \in 1..Len(gd.proxies) :
                     LET p == gd.proxies[j] IN
                     /\ p.name = db.proxy
                     /\ p.requireTLS /\ p.available /\ PortFound(p)
              /\ db.endpoint # "default" =>
                     \E k \in 1..Len(gd.endpoints) :
                         LET e == gd.endpoints[k] IN
                         e.name = db.endpoint /\ e.proxy = db.proxy /\ e.available
        /\ (gd.client /\ gd.proxiesErr) => gd.ret.err # "nil"
        /\ (gd.client /\ ~gd.proxiesErr) => gd.ret.err = "nil"

\* Listing the endpoints and the tags failed; the first proxy is not
\* available, the second and its custom endpoint gave two databases.
C26_Witness ==
    /\ gd.pc = "done" /\ gd.endpointsErr /\ gd.tagsErr /\ gd.ret.err = "nil"
    /\ ~gd.proxies[1].available
    /\ Len(gd.ret.databases) = 2
    /\ gd.ret.databases[1].proxy = "p2" /\ gd.ret.databases[2].endpoint = "e1"

\* The data of the most recent WriteFile to name among the first n WriteFile
\* and Remove calls if no Remove of name came after it, NotFound otherwise.
MostRecent(name, n) ==
    LET on == {i \in 1..n : cw.ops[i].name = name} IN
    IF on = {} THEN NotFound
    ELSE cw.ops[CHOOSE i \in on : \A j \in on : j <= i].data

\* C27: after any sequence of WriteFile and Remove calls, ReadFile and Stat
\* of a name give the data of the most recent WriteFile to it if no Remove
\* of it came later, and fs.ErrNotExist otherwise; hence WriteFile replaces,
\* Remove of an absent name changes nothing, and a call on one name leaves
\* the other files as they were; WriteFile and Remove return no error.
C27_ReadsMostRecentWrite ==
    cw.pc = "new" =>
        /\ \A name \in FileNames : cw.files[name] = MostRecent(name, Len(cw.ops))
        /\ cw.ret.op \in {"ReadFile", "Stat"} =>
               LET d == MostRecent(cw.ret.name, cw.ret.at) IN
               /\ cw.ret.data = d
               /\ cw.ret.err = IF d = NotFound THEN "fs.ErrNotExist" ELSE "nil"
        /\ cw.ret.op \in {"WriteFile", "Remove"} => cw.ret.err = "nil"

\* File a was written twice, a Remove of the absent b followed, and ReadFile
\* of a gave the second data.
C27_Witness ==
    /\ cw.pc = "new"
    /\ cw.ops = <<[op |-> "WriteFile", name |-> "a", data |-> "d1"],
                  [op |-> "WriteFile", name |-> "a", data |-> "d2"],
                  [op |-> "Remove", name |-> "b", data |-> NotFound]>>
    /\ cw.ret = Returned("ReadFile", "a", 3, "d2", "nil")

\* The closers the Close call numbered c ran, in the order it ran them.
RanBy(c) ==
    LET r == SelectSeq(env.ran, LAMBDA x : x.call = c)
    IN  [k \in 1..Len(r) |-> r[k].closer]

\* The closers that failed in the Close call numbered c, in that order.
FailedIn(c) ==
    LET r == SelectSeq(env.ran, LAMBDA x : x.call = c /\ x.failed)
    IN  [k \in 1..Len(r) |-> r[k].closer]

\* C28: when a Close has returned it has run every registered closer, in
\* the reverse of the order of registration, whether or not closers failed,
\* and returned the aggregate of the failures; when New returned an error
\* the closers registered so far have been run; when New returned an
\* environment no closer had been run.
C28_CloseRunsAllInReverse ==
    env.pc = "returned" =>
        /\ \A c \in 1..env.closes :
              /\ Len(RanBy(c)) = Len(env.closers)
              /\ \A k \in 1..Len(env.closers) :
                    RanBy(c)[k] = env.closers[Len(env.closers) + 1 - k]
        /\ env.closes > 0 => env.closeRet = FailedIn(env.closes)
        /\ env.newRet = "err" =>
              /\ env.closes = 1 /\ env.closers # <<>>
              /\ RanBy(1) = <<"s.Stop", "lis.Close">>
        /\ (env.newRet = "nil" /\ env.closes = 0) =>
              env.ran = <<>> /\ env.ok /\ Len(env.closers) = 3

\* Close, called on an environment New returned, ran the three closers
\* although the first and the last failed, and returned their two errors.
C28_Witness ==
    /\ env.pc = "returned" /\ env.newRet = "nil" /\ env.closes = 1
    /\ RanBy(1) = <<"cc.Close", "s.Stop", "lis.Close">>
    /\ env.closeRet = <<"cc.Close", "lis.Close">>

====
